---- MODULE Spec2Model ----
(***************************************************************************)
(* A model of the remote compile probing engine of CETest:                 *)
(*   - CeProbeWorker.run and _probe_group_binary (cetest_ce.py), the       *)
(*     boundary binary search over a newest->oldest candidate list;        *)
(*   - CeClient.compile_cached / _request_json (cetest_ce.py), the retry   *)
(*     loop with backoff, the compile cache and the cancellation checks;   *)
(*   - RateLimiter.wait (cetest_prefs.py), shared by every thread that     *)
(*     uses one client.                                                    *)
(*                                                                         *)
(* Time.  The program observes the monotonic clock only through            *)
(* time.monotonic() and only compares differences, so the clock is kept    *)
(* relative: rl_since is monotonic() - RateLimiter._last as of the latest  *)
(* clock read, saturated at MinInterval (dt >= _min is all the code asks), *)
(* and rl_left[t] is end - monotonic() of the thread polling in wait().    *)
(* One tick is the 20 ms poll step.  Every clock read may find that any    *)
(* amount of time has passed; time.sleep(s) lets at least s pass.          *)
(***************************************************************************)
EXTENDS Integers, Sequences, FiniteSets, TLC

\* ---- bounds of the model ------------------------------------------------
MaxJobs == 2
MaxN == 3
MaxTotal == 3
MaxGroupN == 16
NumCallers == 2
\* probe runs on one client
MaxRuns == 2
\* compilers of the job of the single-request specification
MaxReqN == 3
\* library rules in the settings
MaxRules == 3
\* include lines of a project, and of a project whose flattening is followed
\* to its end, lines of a root file, depth of recursion the interpreter allows
MaxIncludes == 4
MaxLoopIncludes == 3
MaxRootLines == 3
MaxDepth == 5
\* digits of a component of a version string
MaxDigits == 2
\* group summaries of a report
MaxSummaries == 2
MaxCatalog == 3

\* ---- program constants --------------------------------------------------
CODE_TIMEOUT == -100
CODE_TRANSPORT_ERROR == -101
max_retries == 6
\* min_request_interval_s = 0.12 s, in poll steps of 0.02 s
MinInterval == 6
\* backoff = 0.6 s and its cap 6.0 s, in tenths of a second
BackoffSeed == 6
BackoffCap == 60

Min2(a, b) == IF a < b THEN a ELSE b
Max2(a, b) == IF a > b THEN a ELSE b

\* Optional values: None is the empty tuple, a present value a one-tuple.
None == <<>>
Some(x) == <<x>>

Worker == 0
Callers == 1..NumCallers
Threads == {Worker} \cup Callers
NoThread == -1

VARIABLES
  jobs,                 \* CeProbeWorker._jobs: one record per group
  library_rules,        \* CeProbeWorker._library_rules
  source,               \* CeProbeWorker._source
  cpp_std,              \* CeProbeWorker._cpp_std
  runs,                 \* history: probe runs started on this client so far
  pc,                   \* position of the probe worker thread
  jidx,                 \* index of the job the for loop of run() is at
  exc,                  \* exception in flight ("" when none)
  attempts_by_idx,      \* _probe_group_binary: index -> CeAttempt
  inconclusive_reason,  \* _probe_group_binary: nonlocal of test()
  low, high,            \* _probe_group_binary: search interval
  test_i,               \* test(): parameter i
  test_ret,             \* where test() returns to
  attempt,              \* _request_json: loop variable
  backoff,              \* _request_json: backoff (tenths of a second)
  wait_s,               \* _request_json: wait_s handed to _sleep_abortable
  http_code,            \* _request_json: code of the HTTPError handled (0: none)
  retry_after,          \* _request_json: ra, its Retry-After header ("": none)
  hit,                  \* compile_cached: "hit is not None"
  resp,                 \* response travelling back to test()
  summary,              \* run(): summary returned by _probe_group_binary
  events,               \* signals emitted by the worker, in order
  compile_cache,        \* CeClient._compile_cache
  served,               \* history: call -> response compile_cached first returned
  in_flight,            \* history: compile requests sent and not yet answered
  failed_calls,         \* history: calls of compile_cached that raised
  compile_calls,        \* history: indices handed to compile_cached, this group
  abort,                \* the threading.Event shared with the GUI
  interruption,         \* QThread.isInterruptionRequested()
  aborted_runs,         \* history: the runs during which abort_probe set the event
  rl_pc,                \* RateLimiter.wait: position of each thread
  rl_lock,              \* RateLimiter._lock: holder or NoThread
  rl_since,             \* monotonic() - RateLimiter._last (saturated)
  rl_left,              \* RateLimiter.wait: end - monotonic(), per thread
  rl_ev,                \* RateLimiter.wait: abort_event argument per thread
  rl_gap,               \* history: time between the last two normal returns
  rl_stamps,            \* history: normal returns so far (0, 1, 2 = many)
  op,                   \* the function called outside a probe run ("" when none)
  args,                 \* its arguments
  ret,                  \* the value it returned
  files,                \* the file system: path -> lines of the file
  flags,                \* flatten_user_includes: its four boolean parameters
  fl_pc,                \* flatten_user_includes: "idle", "run", "done", "error"
  frames,               \* the active calls of _flatten_file: p and line_no each
  stack,                \* flatten_user_includes: stack
  inlined,              \* flatten_user_includes: inlined
  out,                  \* the text put together so far, as a list of lines
  stats                 \* flatten_user_includes: stats (the four counters)

flVars == <<files, flags, fl_pc, frames, stack, inlined, out, stats>>
callVars == <<op, args, ret, flVars>>
inputVars == <<jobs, library_rules, source, cpp_std, runs, callVars>>
probeVars == <<attempts_by_idx, inconclusive_reason, low, high, test_i, test_ret>>
reqVars == <<attempt, backoff, wait_s, http_code, retry_after, hit>>
rlVars == <<rl_pc, rl_lock, rl_since, rl_left, rl_ev, rl_gap, rl_stamps>>
sigVars == <<abort, interruption, aborted_runs>>
cacheVars == <<compile_cache, served, in_flight, failed_calls>>
workerVars == <<pc, jidx, exc, probeVars, reqVars, resp, summary, events,
                cacheVars, compile_calls>>
vars == <<inputVars, workerVars, sigVars, rlVars>>

\* ==========================================================================
\* RateLimiter.wait (cetest_prefs.py 346-374)
\* ==========================================================================

\* abort_event is not None and abort_event.is_set()
EventSet(t) == rl_ev[t] = "event" /\ abort

\* the clock read finds that d ticks have passed since the previous read
SinceAfter(d) == Min2(rl_since + d, MinInterval)
LeftAfter(d) == [t \in Threads |-> Max2(rl_left[t] - d, 0)]

\* the same entry without mutual exclusion
LockFreeNoMutex(t) == TRUE
\* "with self._lock:" no other thread is inside the block
LockFree(t) == rl_lock = NoThread

\* with self._lock: (enter)
RlAcquire(t) ==
  /\ rl_pc[t] = "call"
  /\ LockFree(t)
  /\ rl_lock' = t
  /\ rl_pc' = [rl_pc EXCEPT ![t] = "locked"]
  /\ UNCHANGED <<rl_since, rl_left, rl_ev, rl_gap, rl_stamps>>

\* lines 360-369: abort check, now, dt, sleep_s
RlEnter(t) ==
  /\ rl_pc[t] = "locked"
  /\ IF EventSet(t)
       THEN /\ rl_pc' = [rl_pc EXCEPT ![t] = "cancelled"]
            /\ rl_lock' = NoThread
            /\ UNCHANGED <<rl_since, rl_left>>
       ELSE \E d \in 0..MinInterval :
              LET dt == SinceAfter(d)
                  sleep_s == MinInterval - dt
              IN  IF dt < MinInterval
                    THEN IF rl_ev[t] = "none"
                           THEN \* time.sleep(sleep_s) is entered
                                /\ rl_since' = dt
                                /\ rl_left' = [LeftAfter(d) EXCEPT ![t] = sleep_s]
                                /\ rl_pc' = [rl_pc EXCEPT ![t] = "sleep"]
                                /\ rl_lock' = rl_lock
                           ELSE \* end = time.monotonic() + sleep_s
                                /\ rl_since' = dt
                                /\ rl_left' = [LeftAfter(d) EXCEPT ![t] = sleep_s]
                                /\ rl_pc' = [rl_pc EXCEPT ![t] = "poll"]
                                /\ rl_lock' = rl_lock
                    ELSE /\ rl_since' = dt
                         /\ rl_left' = LeftAfter(d)
                         /\ rl_pc' = [rl_pc EXCEPT ![t] = "stamp"]
                         /\ rl_lock' = rl_lock
  /\ UNCHANGED <<rl_ev, rl_gap, rl_stamps>>

\* line 368: time.sleep(sleep_s) of a call without abort_event returns, when
\* the whole wait has passed
RlSleep(t) ==
  /\ rl_pc[t] = "sleep"
  /\ \E d \in rl_left[t]..MinInterval :
       /\ rl_since' = SinceAfter(d)
       /\ rl_left' = LeftAfter(d)
  /\ rl_pc' = [rl_pc EXCEPT ![t] = "stamp"]
  /\ UNCHANGED <<rl_lock, rl_ev, rl_gap, rl_stamps>>

\* lines 370-373: one turn of "while time.monotonic() < end"
RlPoll(t) ==
  /\ rl_pc[t] = "poll"
  /\ \E d1 \in 0..MinInterval, d2 \in 1..MinInterval :
       IF LeftAfter(d1)[t] = 0
         THEN /\ rl_since' = SinceAfter(d1)
              /\ rl_left' = LeftAfter(d1)
              /\ rl_pc' = [rl_pc EXCEPT ![t] = "stamp"]
              /\ rl_lock' = rl_lock
         ELSE IF EventSet(t)
           THEN /\ rl_since' = SinceAfter(d1)
                /\ rl_left' = LeftAfter(d1)
                /\ rl_pc' = [rl_pc EXCEPT ![t] = "cancelled"]
                /\ rl_lock' = NoThread
           ELSE \* time.sleep(0.02)
                /\ rl_since' = SinceAfter(d1 + d2)
                /\ rl_left' = LeftAfter(d1 + d2)
                /\ rl_pc' = rl_pc
                /\ rl_lock' = rl_lock
  /\ UNCHANGED <<rl_ev, rl_gap, rl_stamps>>

\* line 374: self._last = time.monotonic(), leave the block and return
RlStamp(t) ==
  /\ rl_pc[t] = "stamp"
  /\ \E d \in 0..MinInterval :
       /\ rl_gap' = SinceAfter(d)
       /\ rl_left' = LeftAfter(d)
  /\ rl_since' = 0
  /\ rl_stamps' = Min2(rl_stamps + 1, 2)
  /\ rl_lock' = IF rl_lock = t THEN NoThread ELSE rl_lock
  /\ rl_pc' = [rl_pc EXCEPT ![t] = "returned"]
  /\ UNCHANGED rl_ev

\* a thread other than the probe worker calls wait() on the shared limiter
\* (the GUI thread through list_libraries_cpp passes no abort_event)
CallWait(t) ==
  /\ rl_pc[t] \in {"idle", "returned", "cancelled"}
  /\ \E ev \in {"none", "event"} : rl_ev' = [rl_ev EXCEPT ![t] = ev]
  /\ rl_pc' = [rl_pc EXCEPT ![t] = "call"]
  /\ UNCHANGED <<rl_lock, rl_since, rl_left, rl_gap, rl_stamps>>

\* MainWindow.abort_probe (cetest_app.py 1316-1327)
AbortProbe ==
  /\ ~abort
  /\ abort' = TRUE
  /\ interruption' = (pc # "idle" /\ pc # "done")
  /\ aborted_runs' = aborted_runs \cup {runs}
  /\ UNCHANGED <<inputVars, workerVars, rlVars>>

RlInit ==
  /\ rl_pc = [t \in Threads |-> "idle"]
  /\ rl_lock = NoThread
  /\ rl_since \in {0, MinInterval}
  /\ rl_left = [t \in Threads |-> 0]
  /\ rl_ev = [t \in Threads |-> "none"]
  /\ rl_gap = MinInterval
  /\ rl_stamps = 0

\* ==========================================================================
\* Data of the probe: attempts, summaries, signals
\* ==========================================================================

\* CeAttempt (cetest_ce.py 303-319); the compiler is named by its index
CeAttempt(i, c) == [idx |-> i, code |-> c]

\* a looser success test
okNonNegative(att) == att.code >= 0
\* CeAttempt.ok
ok(att) == att.code = 0

\* CeGroupSummary (cetest_ce.py 322-334)
CeGroupSummary(h, l, f, atts, r) ==
  [highest_supported |-> h, lowest_supported |-> l, first_failure |-> f,
   attempts |-> atts, inconclusive_reason |-> r]

NoSummary == CeGroupSummary(None, None, None, <<>>, "None")

\* the attempt of the summary run() builds for a failed group (415-424)
ProbeErrorAttempt == CeAttempt(-1, CODE_TRANSPORT_ERROR)

\* [attempts_by_idx[i] for i in sorted(attempts_by_idx.keys())]
RECURSIVE SortedAttempts(_, _)
SortedAttempts(tbl, keys) ==
  IF keys = {} THEN <<>>
  ELSE LET m == CHOOSE k \in keys : \A o \in keys : k <= o
       IN  <<tbl[m]>> \o SortedAttempts(tbl, keys \ {m})
tested == SortedAttempts(attempts_by_idx, DOMAIN attempts_by_idx)

EmptyTable == [i \in {} |-> CeAttempt(0, 0)]
Put(tbl, i, att) == [k \in (DOMAIN tbl) \cup {i} |-> IF k = i THEN att ELSE tbl[k]]

Ev(kind, job, reason) == [kind |-> kind, job |-> job, reason |-> reason]

\* the emission left out
EmitGroupDoneDropped(evs, j, s) == evs
\* group_done.emit(summary)
EmitGroupDone(evs, j, s) == Append(evs, Ev("group_done", j, s.inconclusive_reason))

\* ==========================================================================
\* Library rules (cetest_prefs.py 101-128)
\* ==========================================================================

ApplyRule(acc, r) ==
  IF r.lib_id = "" \/ r.version = "" THEN acc
  ELSE IF \E k \in 1..Len(acc) : acc[k].id = r.lib_id
    THEN [k \in 1..Len(acc) |->
            IF acc[k].id = r.lib_id THEN [id |-> r.lib_id, version |-> r.version]
            ELSE acc[k]]
    ELSE Append(acc, [id |-> r.lib_id, version |-> r.version])

RuleMatches(r, fam, cid) ==
  \/ r.scope = "all"
  \/ (r.scope = "family" /\ r.target = fam)
  \/ (r.scope = "compiler" /\ r.target = cid)

RECURSIVE FoldRules(_, _, _, _)
FoldRules(rules, fam, cid, acc) ==
  IF rules = <<>> THEN acc
  ELSE FoldRules(Tail(rules), fam, cid,
                 IF RuleMatches(Head(rules), fam, cid)
                   THEN ApplyRule(acc, Head(rules)) ELSE acc)

effective_libraries_for_compiler(rules, fam, cid) == FoldRules(rules, fam, cid, <<>>)

\* ==========================================================================
\* The probe worker (cetest_ce.py 352-638)
\* ==========================================================================

NoResp == [has_code |-> FALSE, code |-> 0]

\* the locals of _request_json / compile_cached once the call is over
RequestOver ==
  /\ attempt' = 0 /\ backoff' = BackoffSeed /\ wait_s' = 0 /\ http_code' = 0
  /\ retry_after' = ""
  /\ hit' = FALSE
  /\ resp' = NoResp

\* the locals of _probe_group_binary once run() has taken its result
ProbeOver ==
  /\ attempts_by_idx' = EmptyTable
  /\ inconclusive_reason' = "None"
  /\ low' = 0 /\ high' = 0
  /\ test_i' = 0 /\ test_ret' = "after_newest"
  /\ compile_calls' = <<>>

\* a job is (platform, series, compiler_type, compilers); compilers[i] of the
\* code is compilers[i + 1] here
n == Len(jobs[jidx].compilers)
fam == jobs[jidx].compiler_type
compiler_id(i) == jobs[jidx].compilers[i + 1]

\* CeProbeWorker._cancelled (381-386)
cancelled == abort \/ interruption

Raise(e, handler) == pc' = handler /\ exc' = e

\* run(), lines 391-393 and 430: loop head of "for ... in self._jobs"
RunLoop ==
  /\ pc = "run_loop"
  /\ IF jidx > Len(jobs)
       THEN /\ events' = Append(events, Ev("finished", 0, "None"))
            /\ pc' = "done"
            /\ exc' = exc
       ELSE /\ events' = events
            /\ IF cancelled THEN Raise("CancelledByUser", "run_except")
               ELSE pc' = "probe_start" /\ exc' = exc
  /\ summary' = NoSummary
  /\ UNCHANGED <<inputVars, jidx, probeVars, reqVars, resp, cacheVars,
                 compile_calls, sigVars, rlVars>>

\* _probe_group_binary, lines 442-445 and 510-522; build_user_args_for_group
\* runs outside every try block of the function, so an exception it raises
\* leaves _probe_group_binary
ProbeStart ==
  /\ pc = "probe_start"
  /\ attempts_by_idx' = EmptyTable
  /\ inconclusive_reason' = "None"
  /\ compile_calls' = <<>>
  /\ low' = 0 /\ high' = 0
  /\ \/ /\ Raise("Exception", "group_except")
        /\ UNCHANGED <<summary, test_i, test_ret>>
     \/ /\ n = 0
        /\ summary' = CeGroupSummary(None, None, None, <<>>, "None")
        /\ pc' = "emit" /\ exc' = exc
        /\ UNCHANGED <<test_i, test_ret>>
     \/ /\ n > 0
        /\ test_i' = 0 /\ test_ret' = "after_newest"
        /\ pc' = "test" /\ exc' = exc
        /\ UNCHANGED summary
  /\ UNCHANGED <<inputVars, jidx, reqVars, resp, events, cacheVars,
                 sigVars, rlVars>>

\* the table never consulted
CachedAttemptNever(i) == FALSE
\* lines 453-455: hit = attempts_by_idx.get(i); hit is not None
CachedAttempt(i) == i \in DOMAIN attempts_by_idx

\* test(i), lines 450-458
Test ==
  /\ pc = "test"
  /\ IF cancelled
       THEN Raise("CancelledByUser", "group_except") /\ UNCHANGED compile_calls
       ELSE IF CachedAttempt(test_i)
         THEN pc' = test_ret /\ exc' = exc /\ UNCHANGED compile_calls
         ELSE /\ pc' = "compile" /\ exc' = exc
              /\ compile_calls' = Append(compile_calls, test_i)
  /\ UNCHANGED <<inputVars, jidx, probeVars, reqVars, resp, summary, events,
                 cacheVars, sigVars, rlVars>>

\* ---- compile_cached (cetest_ce.py 210-275) --------------------------------

\* std_flags_for_family (cetest_flags.py 9-27), the flags as a tuple of words
std_flags_for_family(f, s) ==
  IF f \in {"msvc", "clang-cl"}
    THEN <<IF s \in {"c++11", "c++14"} THEN "/std:c++14"
           ELSE IF s = "c++20" THEN "/std:c++20"
           ELSE IF s \in {"c++23", "c++26"} THEN "/std:c++latest"
           ELSE "/std:c++17", "/Zs">>
    ELSE <<"-std=", s, "-fsyntax-only">>

\* build_user_args_for_group (cetest_prefs.py 272-280) without extra flags
user_args == std_flags_for_family(fam, cpp_std)

\* line 222: hashlib.sha1 of the source text, one digest per text
Sources == {"int main() {}", "int x = y;"}
sha1(s) == IF s = "int main() {}" THEN "da39" ELSE "7c4a"

\* the libraries argument of the call in test(), line 460
libraries == effective_libraries_for_compiler(library_rules, fam, compiler_id(test_i))

\* lines 223-233 for a list whose loop body is never entered
EmptyLibsKey == {}

\* the key without the digest of the source
CacheKeyNoSource(cid, ua, s) == <<cid, ua, EmptyLibsKey>>
\* line 235: key = (compiler_id, user_arguments, libs_key, h)
CacheKey(cid, ua, s) == <<cid, ua, EmptyLibsKey, sha1(s)>>

key == CacheKey(compiler_id(test_i), user_args, source)

\* what the caller asked for: compiler, arguments, library set, source text
CallKey ==
  <<compiler_id(test_i), user_args,
    {<<libraries[k].id, libraries[k].version>> : k \in 1..Len(libraries)}, source>>

Record(tbl, k, v) ==
  IF k \in DOMAIN tbl THEN tbl
  ELSE [x \in (DOMAIN tbl) \cup {k} |-> IF x = k THEN v ELSE tbl[x]]

\* lines 222-239 and 267: the names _normalize_ce_library_id and
\* _normalize_ce_library_version are not bound in cetest_ce (imports at
\* lines 19-22), so the loop body at 229 raises NameError for a list item
CompileCached ==
  /\ pc = "compile"
  /\ IF Len(libraries) > 0
       THEN /\ Raise("NameError", "test_except")
            /\ UNCHANGED <<resp, attempt, backoff, hit, served>>
       ELSE IF key \in DOMAIN compile_cache
         THEN /\ hit' = TRUE
              /\ resp' = compile_cache[key]
              /\ served' = Record(served, CallKey, compile_cache[key])
              /\ pc' = "test_resp" /\ exc' = exc
              /\ UNCHANGED <<attempt, backoff>>
         ELSE /\ hit' = FALSE
              /\ attempt' = 0
              /\ backoff' = BackoffSeed
              /\ pc' = "req_loop" /\ exc' = exc
              /\ UNCHANGED <<resp, served>>
  /\ UNCHANGED <<inputVars, jidx, probeVars, wait_s, http_code, retry_after,
                 summary, events,
                 compile_cache, in_flight, failed_calls, compile_calls, sigVars, rlVars>>

\* _request_json, lines 55-60
ReqLoop ==
  /\ pc = "req_loop"
  /\ IF abort
       THEN Raise("CancelledByUser", "test_except") /\ UNCHANGED <<rl_pc, rl_ev>>
       ELSE /\ pc' = "rate_wait" /\ exc' = exc
            /\ rl_pc' = [rl_pc EXCEPT ![Worker] = "call"]
            /\ rl_ev' = [rl_ev EXCEPT ![Worker] = "event"]
  /\ UNCHANGED <<inputVars, jidx, probeVars, reqVars, resp, summary, events,
                 cacheVars, compile_calls, sigVars,
                 rl_lock, rl_since, rl_left, rl_gap, rl_stamps>>

\* _request_json, line 60: self._rate.wait returns or raises
RateWaitDone ==
  /\ pc = "rate_wait"
  /\ rl_pc[Worker] \in {"returned", "cancelled"}
  /\ IF rl_pc[Worker] = "cancelled"
       THEN Raise("CancelledByUser", "test_except") /\ UNCHANGED in_flight
       ELSE pc' = "http" /\ exc' = exc /\ in_flight' = in_flight + 1
  /\ rl_pc' = [rl_pc EXCEPT ![Worker] = "idle"]
  /\ UNCHANGED <<inputVars, jidx, probeVars, reqVars, resp, summary, events,
                 compile_cache, served, failed_calls, compile_calls, sigVars,
                 rl_lock, rl_since, rl_left, rl_ev, rl_gap, rl_stamps>>

\* ---- one HTTP attempt of _request_json (lines 62-116) ---------------------

\* what the service can answer to a compile request
RespBodies == {[has_code |-> TRUE, code |-> 0], [has_code |-> TRUE, code |-> 1],
               [has_code |-> FALSE, code |-> 0]}
HttpStatuses == {404, 429, 503}
\* float("inf"): a wait that no clock value ends
Infinity == 1000000
\* Retry-After header of an HTTP error: absent, delay seconds, a value float()
\* reads as infinite, or an HTTP date
RetryAfterValues == {"", "1", "inf", "Wed, 21 Oct 2026 07:28:00 GMT"}

\* the header ignored
WaitOfBackoff(ra, bo) == bo
\* lines 84-91: wait_s from the header ra (tenths of a second)
WaitOf(ra, bo) ==
  IF ra = "" THEN bo
  ELSE IF ra = "1" THEN 10
  ELSE IF ra = "inf" THEN Infinity
  ELSE bo

\* every status taken as retryable
retryableAny(code) == TRUE
\* line 80
retryable(code) == code \in {408, 429, 500, 502, 503, 504}

\* lines 81, 97, 104, 111: the failure is raised to the caller
GivesUp(canRetry) == ~canRetry \/ attempt = max_retries - 1

\* the check after the read left out
AbortedAfterReadNever == FALSE
\* line 68: abort_event is not None and abort_event.is_set(), for the worker's
\* event
AbortedAfterRead == abort

\* the response is stored as soon as it is read
StoredAtOnce(cache, k, body, returned) ==
  [x \in (DOMAIN cache) \cup {k} |-> IF x = k THEN body ELSE cache[x]]
\* lines 267-275: self._compile_cache[key] = resp stands behind the call of
\* _request_json and is reached when that call returned
Stored(cache, k, body, returned) ==
  IF returned
    THEN [x \in (DOMAIN cache) \cup {k} |-> IF x = k THEN body ELSE cache[x]]
    ELSE cache

\* lines 66-70 and 274: the response is read, the abort event is checked, the
\* JSON is returned to compile_cached, which stores it
HttpResponse ==
  /\ pc = "http"
  /\ \E body \in RespBodies :
       /\ compile_cache' = Stored(compile_cache, key, body, ~AbortedAfterRead)
       /\ IF AbortedAfterRead
            THEN /\ Raise("CancelledByUser", "test_except")
                 /\ UNCHANGED <<resp, served>>
            ELSE /\ resp' = body
                 /\ served' = Record(served, CallKey, body)
                 /\ pc' = "test_resp" /\ exc' = exc
  /\ in_flight' = in_flight - 1
  /\ UNCHANGED <<inputVars, jidx, probeVars, reqVars, summary, events,
                 failed_calls, compile_calls, sigVars, rlVars>>

\* a failed attempt: raised, or followed by _sleep_abortable(w)
FailedAttempt(e, status, ra, canRetry, w) ==
  /\ pc = "http"
  /\ http_code' = status
  /\ IF GivesUp(canRetry)
       THEN Raise(e, "test_except") /\ UNCHANGED <<wait_s, retry_after>>
       ELSE pc' = "sleep" /\ exc' = exc /\ wait_s' = w /\ retry_after' = ra
  /\ in_flight' = in_flight - 1
  /\ UNCHANGED <<inputVars, jidx, probeVars, attempt, backoff, hit, resp, summary,
                 events, compile_cache, served, failed_calls, compile_calls, sigVars,
                 rlVars>>

\* lines 73-95
HttpError ==
  \E status \in HttpStatuses, ra \in RetryAfterValues :
    FailedAttempt("HTTPError", status, ra, retryable(status), WaitOf(ra, backoff))

\* lines 96-102
HttpTimeout == FailedAttempt("TimeoutError", 0, "", TRUE, backoff)

\* lines 103-109
HttpConnectionError == FailedAttempt("ConnectionError", 0, "", TRUE, backoff)

\* lines 110-116
HttpURLError == FailedAttempt("URLError", 0, "", TRUE, backoff)

\* _sleep_abortable (lines 120-130) with an abort_event, then
\* backoff = min(backoff * 2.0, 6.0) and the next turn of the for loop.
\* How many turns "while time.monotonic() < end" takes is decided by the
\* clock; every turn checks the event and sleeps one poll step.
SleepAbortable ==
  /\ pc = "sleep"
  /\ \/ /\ abort
        /\ Raise("CancelledByUser", "test_except")
        /\ UNCHANGED <<attempt, backoff, http_code, retry_after, hit,
                       rl_since, rl_left>>
     \/ /\ ~abort
        /\ \E d \in 1..MinInterval :
             rl_since' = SinceAfter(d) /\ rl_left' = LeftAfter(d)
        /\ UNCHANGED <<pc, exc, attempt, backoff, http_code, retry_after, hit>>
     \/ /\ wait_s < Infinity
        /\ backoff' = Min2(backoff * 2, BackoffCap)
        /\ attempt' = attempt + 1
        /\ http_code' = 0
        /\ retry_after' = ""
        /\ pc' = "req_loop" /\ exc' = exc
        /\ UNCHANGED <<hit, rl_since, rl_left>>
  /\ UNCHANGED <<inputVars, jidx, probeVars, wait_s, resp, summary, events,
                 cacheVars, compile_calls, sigVars,
                 rl_pc, rl_lock, rl_ev, rl_gap, rl_stamps>>

\* ---- test(i): building the attempt (lines 469-508) ------------------------

\* a response without code taken as a success
CodeOfDefaultZero(body) == IF body.has_code THEN body.code ELSE 0
\* line 469: int(resp.get("code", -1)), for a code that is an integer
CodeOf(body) == IF body.has_code THEN body.code ELSE -1

\* the clauses without "except CancelledByUser: raise"
TestHandlerNoReraise(e) ==
  IF e = "TimeoutError" THEN "timeout" ELSE "transport"
\* the except clauses of test(), lines 480-505, in order
TestHandler(e) ==
  IF e = "CancelledByUser" THEN "reraise"
  ELSE IF e = "TimeoutError" THEN "timeout"
  ELSE "transport"

\* the assignment without the nonlocal declaration
ReasonOfLocal(kind) == "None"
\* lines 483 and 495: the nonlocal inconclusive_reason
ReasonOf(kind) ==
  IF kind = "timeout" THEN "Timeout talking to Compiler Explorer"
  ELSE "Transport error talking to Compiler Explorer"

TestResp ==
  /\ pc = "test_resp"
  /\ attempts_by_idx' = Put(attempts_by_idx, test_i, CeAttempt(test_i, CodeOf(resp)))
  /\ pc' = test_ret
  /\ RequestOver
  /\ UNCHANGED <<inputVars, jidx, exc, inconclusive_reason, low, high, test_i,
                 test_ret, summary, events, cacheVars,
                 compile_calls, sigVars, rlVars>>

TestExcept ==
  /\ pc = "test_except"
  /\ LET kind == TestHandler(exc)
     IN  IF kind = "reraise"
           THEN /\ pc' = "group_except"
                /\ UNCHANGED <<exc, attempts_by_idx, inconclusive_reason>>
           ELSE /\ inconclusive_reason' = ReasonOf(kind)
                /\ attempts_by_idx' =
                     Put(attempts_by_idx, test_i,
                         CeAttempt(test_i, IF kind = "timeout" THEN CODE_TIMEOUT
                                           ELSE CODE_TRANSPORT_ERROR))
                /\ pc' = test_ret
                /\ exc' = ""
  /\ RequestOver
  /\ failed_calls' = failed_calls \cup {CallKey}
  /\ UNCHANGED <<inputVars, jidx, low, high, test_i, test_ret,
                 summary, events, compile_cache, served, in_flight,
                 compile_calls, sigVars, rlVars>>

\* ---- _probe_group_binary after the tests (lines 522-638) ------------------

newest == attempts_by_idx[0]
oldest == attempts_by_idx[n - 1]

CallTest(i, r) == test_i' = i /\ test_ret' = r /\ pc' = "test"
Return(s) == summary' = s /\ pc' = "emit"

\* lines 525-534
SummaryNewestFault(nw, atts, r) == CeGroupSummary(None, None, Some(nw), atts, r)
\* lines 538-547
SummaryNewestFails(nw) == CeGroupSummary(None, None, Some(nw), <<nw>>, "None")
\* the only compiler reported as highest but not as lowest
SummarySingleNoLowest(nw) == CeGroupSummary(Some(nw), None, None, <<nw>>, "None")
\* lines 550-559
SummarySingle(nw) == CeGroupSummary(Some(nw), Some(nw), None, <<nw>>, "None")
\* lines 564-573
SummaryOldestFault(nw, old, atts, r) == CeGroupSummary(Some(nw), None, Some(old), atts, r)
\* highest and lowest exchanged
SummaryAllPassSwapped(nw, old, atts) == CeGroupSummary(Some(old), Some(nw), None, atts, "None")
\* lines 578-587
SummaryAllPass(nw, old, atts) == CeGroupSummary(Some(nw), Some(old), None, atts, "None")
\* the last index that passed reported as the boundary
SummaryMidFaultGuess(nw, am, atts, r) == CeGroupSummary(Some(nw), Some(nw), Some(am), atts, r)
\* lines 598-607
SummaryMidFault(nw, am, atts, r) == CeGroupSummary(Some(nw), None, Some(am), atts, r)
\* lines 618-627
SummaryLateFault(nw, ff, atts, r) == CeGroupSummary(Some(nw), None, Some(ff), atts, r)
\* lines 629-638
SummaryBoundary(nw, lo, ff, atts) ==
  CeGroupSummary(Some(nw), IF ok(lo) THEN Some(lo) ELSE None,
                 IF ~ok(ff) THEN Some(ff) ELSE None, atts, "None")

\* a scan from the newest end
MidLinear(lo, hi) == lo + 1
\* line 594
Mid(lo, hi) == (lo + hi) \div 2

\* the two branches exchanged
NarrowSwapped(passed, lo, hi, m) == IF passed THEN <<lo, m>> ELSE <<m, hi>>
\* lines 608-611: <<low, high>> after the midpoint m was tested
Narrow(passed, lo, hi, m) == IF passed THEN <<m, hi>> ELSE <<lo, m>>

\* lines 522-561
AfterNewest ==
  /\ pc = "after_newest"
  /\ IF inconclusive_reason # "None"
       THEN Return(SummaryNewestFault(newest, tested, inconclusive_reason))
            /\ UNCHANGED <<test_i, test_ret>>
       ELSE IF ~ok(newest)
         THEN Return(SummaryNewestFails(newest)) /\ UNCHANGED <<test_i, test_ret>>
         ELSE IF n = 1
           THEN Return(SummarySingle(newest)) /\ UNCHANGED <<test_i, test_ret>>
           ELSE CallTest(n - 1, "after_oldest") /\ UNCHANGED summary
  /\ UNCHANGED <<inputVars, jidx, exc, attempts_by_idx, inconclusive_reason,
                 low, high, reqVars, resp, events, cacheVars,
                 compile_calls, sigVars, rlVars>>

\* lines 561-590
AfterOldest ==
  /\ pc = "after_oldest"
  /\ IF inconclusive_reason # "None"
       THEN Return(SummaryOldestFault(newest, oldest, tested, inconclusive_reason))
            /\ UNCHANGED <<low, high>>
       ELSE IF ok(oldest)
         THEN Return(SummaryAllPass(newest, oldest, tested)) /\ UNCHANGED <<low, high>>
         ELSE /\ low' = 0
              /\ high' = n - 1
              /\ pc' = "loop"
              /\ UNCHANGED summary
  /\ UNCHANGED <<inputVars, jidx, exc, attempts_by_idx, inconclusive_reason,
                 test_i, test_ret, reqVars, resp, events, cacheVars,
                 compile_calls, sigVars, rlVars>>

\* the loop is never entered
KeepsSearchingNever(lo, hi) == FALSE
\* line 591: the condition of the while loop
KeepsSearching(lo, hi) == hi - lo > 1

\* lines 591-595 and 613: head of "while high - low > 1"
Loop ==
  /\ pc = "loop"
  /\ IF KeepsSearching(low, high)
       THEN IF cancelled
              THEN Raise("CancelledByUser", "group_except")
                   /\ UNCHANGED <<test_i, test_ret>>
              ELSE CallTest(Mid(low, high), "after_mid") /\ exc' = exc
       ELSE CallTest(low, "after_low") /\ exc' = exc
  /\ UNCHANGED <<inputVars, jidx, attempts_by_idx, inconclusive_reason, low,
                 high, reqVars, resp, summary, events, cacheVars,
                 compile_calls, sigVars, rlVars>>

\* lines 595-611
AfterMid ==
  /\ pc = "after_mid"
  /\ LET am == attempts_by_idx[test_i]
     IN  IF inconclusive_reason # "None"
           THEN Return(SummaryMidFault(newest, am, tested, inconclusive_reason))
                /\ UNCHANGED <<low, high>>
           ELSE /\ low' = Narrow(ok(am), low, high, test_i)[1]
                /\ high' = Narrow(ok(am), low, high, test_i)[2]
                /\ pc' = "loop"
                /\ UNCHANGED summary
  /\ UNCHANGED <<inputVars, jidx, exc, attempts_by_idx, inconclusive_reason,
                 test_i, test_ret, reqVars, resp, events, cacheVars,
                 compile_calls, sigVars, rlVars>>

\* lines 613-614: lowest_ok = test(low) has returned, first_fail = test(high)
AfterLow ==
  /\ pc = "after_low"
  /\ CallTest(high, "after_high")
  /\ UNCHANGED <<inputVars, jidx, exc, attempts_by_idx, inconclusive_reason,
                 low, high, reqVars, resp, summary, events, cacheVars,
                 compile_calls, sigVars, rlVars>>

\* lines 614-638
AfterHigh ==
  /\ pc = "after_high"
  /\ LET lowest_ok == attempts_by_idx[low]
         first_fail == attempts_by_idx[high]
     IN  IF inconclusive_reason # "None"
           THEN Return(SummaryLateFault(newest, first_fail, tested, inconclusive_reason))
           ELSE Return(SummaryBoundary(newest, lowest_ok, first_fail, tested))
  /\ UNCHANGED <<inputVars, jidx, exc, probeVars, reqVars, resp, events,
                 cacheVars, compile_calls, sigVars, rlVars>>

\* ---- run(): emitting and the except clauses (lines 403-435) --------------

\* no containment: every exception leaves the loop
GroupHandlerNoContain(e) == "reraise"
\* lines 405-407: the except clauses around one group, in order
GroupHandler(e) == IF e = "CancelledByUser" THEN "reraise" ELSE "contain"

\* lines 409-427
ProbeErrorSummary ==
  CeGroupSummary(None, None, Some(ProbeErrorAttempt), <<>>, "Probe error")

\* line 404, then the next turn of the for loop
EmitGroup ==
  /\ pc = "emit"
  /\ events' = EmitGroupDone(events, jidx, summary)
  /\ jidx' = jidx + 1
  /\ pc' = "run_loop"
  /\ ProbeOver
  /\ UNCHANGED <<inputVars, exc, reqVars, resp, summary,
                 cacheVars, sigVars, rlVars>>

\* lines 405-428
GroupExcept ==
  /\ pc = "group_except"
  /\ IF GroupHandler(exc) = "reraise"
       THEN /\ pc' = "run_except"
            /\ UNCHANGED <<exc, summary, events, jidx>>
            /\ UNCHANGED <<probeVars, compile_calls>>
       ELSE /\ ProbeOver
            /\ summary' = ProbeErrorSummary
            /\ events' = EmitGroupDone(events, jidx, ProbeErrorSummary)
            /\ jidx' = jidx + 1
            /\ exc' = ""
            /\ pc' = "run_loop"
  /\ UNCHANGED <<inputVars, reqVars, resp, cacheVars, sigVars, rlVars>>

\* the handler reports the exception as the result of one more group
HandlerSignalGroupDone(e) == "group_done"
\* lines 431-435: the except clauses of run(), in order
HandlerSignal(e) == IF e = "CancelledByUser" THEN "aborted" ELSE "failed"

\* lines 431-435
RunExcept ==
  /\ pc = "run_except"
  /\ events' = Append(events, Ev(HandlerSignal(exc), 0, "None"))
  /\ pc' = "done"
  /\ UNCHANGED <<inputVars, jidx, exc, probeVars, reqVars, resp, summary,
                 cacheVars, compile_calls, sigVars, rlVars>>

\* ==========================================================================
\* Specifications
\* ==========================================================================

\* the candidate list of job j with k compilers
Job(j, k) == [compiler_type |-> "gcc", compilers |-> [i \in 1..k |-> <<j, i>>]]

\* _build_jobs (cetest_app.py 1241-1250) keeps non-empty lists only, and
\* probe_lowest_supported returns early without jobs
RECURSIVE Sum(_, _)
Sum(f, k) == IF k = 0 THEN 0 ELSE f[k] + Sum(f, k - 1)

\* job lists of at most maxJobs groups of at most maxN compilers each and
\* maxTotal compilers together
JobLists(maxJobs, maxN, maxTotal) ==
  UNION {{[j \in 1..len |-> Job(j, sizes[j])] :
            sizes \in {f \in [1..len -> 1..maxN] : Sum(f, len) <= maxTotal}} :
         len \in 1..maxJobs}

Stds == {"c++17", "c++20"}

RuleSets == {<<>>, <<[scope |-> "all", target |-> "", lib_id |-> "fmt", version |-> "9.0"]>>}

\* no flattening asked for
NoFlags == [inline_once |-> FALSE, strip_pragma_once |-> FALSE,
            emit_line_directives |-> FALSE, include_debug_comments |-> FALSE,
            compile_commands_path |-> "None"]
NoStats == [files_inlined |-> 0, include_lines_seen |-> 0,
            include_lines_inlined |-> 0, include_lines_unresolved |-> 0]
FlattenIdle ==
  /\ files = <<>> /\ flags = NoFlags
  /\ fl_pc = "idle" /\ frames = <<>> /\ stack = <<>> /\ inlined = {}
  /\ out = <<>> /\ stats = NoStats

\* no function called on its own
CallIdle == op = "" /\ args = <<>> /\ ret = <<>>

\* the worker as constructed, before run()
ProbeIdle ==
  /\ pc = "run_loop"
  /\ jidx = 1
  /\ exc = ""
  /\ attempts_by_idx = EmptyTable
  /\ inconclusive_reason = "None"
  /\ low = 0 /\ high = 0
  /\ test_i = 0 /\ test_ret = "after_newest"
  /\ attempt = 0 /\ backoff = BackoffSeed /\ wait_s = 0 /\ http_code = 0
  /\ retry_after = ""
  /\ resp = NoResp
  /\ summary = NoSummary
  /\ events = <<>>
  /\ hit = FALSE
  /\ compile_cache = [k \in {} |-> NoResp]
  /\ served = [k \in {} |-> NoResp]
  /\ in_flight = 0
  /\ failed_calls = {}
  /\ source = "int main() {}"
  /\ cpp_std = "c++17"
  /\ runs = 1
  /\ compile_calls = <<>>
  /\ abort = FALSE
  /\ interruption = FALSE
  /\ aborted_runs = {}

WorkerInit ==
  /\ ProbeIdle
  /\ CallIdle
  /\ FlattenIdle

\* a probe run over several groups
Init ==
  /\ jobs \in JobLists(MaxJobs, MaxN, MaxTotal)
  /\ library_rules \in RuleSets
  /\ WorkerInit
  /\ RlInit

\* a probe run over one group with a longer candidate list
InitGroup ==
  /\ jobs \in JobLists(1, MaxGroupN, MaxGroupN)
  /\ library_rules \in RuleSets
  /\ WorkerInit
  /\ RlInit

WorkerLimiter(A) == A /\ UNCHANGED <<inputVars, workerVars, sigVars>>

Next ==
  \/ RunLoop \/ ProbeStart \/ Test \/ CompileCached \/ ReqLoop \/ RateWaitDone
  \/ HttpResponse \/ HttpError \/ HttpTimeout \/ HttpConnectionError \/ HttpURLError
  \/ SleepAbortable \/ TestResp \/ TestExcept
  \/ AfterNewest \/ AfterOldest \/ Loop \/ AfterMid \/ AfterLow \/ AfterHigh
  \/ EmitGroup \/ GroupExcept \/ RunExcept
  \/ AbortProbe
  \/ WorkerLimiter(RlAcquire(Worker))
  \/ WorkerLimiter(RlEnter(Worker))
  \/ WorkerLimiter(RlPoll(Worker))
  \/ WorkerLimiter(RlStamp(Worker))

Spec == Init /\ [][Next]_vars
SpecGroup == InitGroup /\ [][Next]_vars

\* the check left out: a probe may start at any time
ThreadIsRunningNever == FALSE
\* _thread_is_running(self._probe_thread), line 1267: the thread runs until
\* the worker's terminal signal has made it quit
ThreadIsRunning == pc # "done"

\* the event of the run before is handed to the new worker
NewAbortEventShared == abort
\* line 1277: self._probe_abort = threading.Event(), which is not set
NewAbortEvent == FALSE

\* MainWindow.probe_lowest_supported (cetest_app.py 1261-1314) once the
\* previous probe thread has ended: a new worker on the same client, with a
\* new abort event, the text of the editor and the settings of the moment
StartProbe ==
  /\ ~ThreadIsRunning
  /\ runs < MaxRuns
  /\ runs' = runs + 1
  /\ jobs' = jobs
  /\ source' \in Sources
  /\ cpp_std' \in Stds
  /\ library_rules' \in RuleSets
  /\ pc' = "run_loop"
  /\ jidx' = 1
  /\ exc' = ""
  /\ ProbeOver
  /\ RequestOver
  /\ summary' = NoSummary
  /\ events' = <<>>
  /\ abort' = NewAbortEvent
  /\ interruption' = FALSE
  /\ aborted_runs' = aborted_runs
  /\ UNCHANGED <<callVars, cacheVars, rlVars>>

\* probe runs one after the other on one client, each over the same group
\* of three compilers
InitRuns ==
  /\ jobs = <<Job(1, 3)>>
  /\ library_rules \in RuleSets
  /\ WorkerInit
  /\ RlInit

NextRuns == Next \/ StartProbe

SpecRuns == InitRuns /\ [][NextRuns]_vars

\* one probe of one short group, with a worker thread that keeps running, a
\* service that answers every request somehow and a clock that advances
InitRequest ==
  /\ jobs \in JobLists(1, MaxReqN, MaxReqN)
  /\ library_rules \in RuleSets
  /\ WorkerInit
  /\ RlInit

WorkerStep ==
  \/ RunLoop \/ ProbeStart \/ Test \/ CompileCached \/ ReqLoop \/ RateWaitDone
  \/ HttpResponse \/ HttpError \/ HttpTimeout \/ HttpConnectionError \/ HttpURLError
  \/ SleepAbortable \/ TestResp \/ TestExcept
  \/ AfterNewest \/ AfterOldest \/ Loop \/ AfterMid \/ AfterLow \/ AfterHigh
  \/ EmitGroup \/ GroupExcept \/ RunExcept
  \/ WorkerLimiter(RlAcquire(Worker))
  \/ WorkerLimiter(RlEnter(Worker))
  \/ WorkerLimiter(RlPoll(Worker))
  \/ WorkerLimiter(RlStamp(Worker))

SpecRequest == InitRequest /\ [][Next]_vars /\ WF_vars(WorkerStep)

\* threads calling wait() on one limiter, no probe running
InitRate ==
  /\ jobs = <<>>
  /\ library_rules = <<>>
  /\ WorkerInit
  /\ RlInit

NextRate ==
  \/ \E t \in Callers :
       \/ WorkerLimiter(CallWait(t))
       \/ WorkerLimiter(RlAcquire(t))
       \/ WorkerLimiter(RlEnter(t))
       \/ WorkerLimiter(RlSleep(t))
       \/ WorkerLimiter(RlPoll(t))
       \/ WorkerLimiter(RlStamp(t))
  \/ AbortProbe

SpecRate == InitRate /\ [][NextRate]_vars

\* ---- functions called on their own ----------------------------------------

\* everything of the probe engine
engineVars == <<jobs, library_rules, source, cpp_std, runs, workerVars, sigVars, rlVars>>

Call(f, a, r) == op' = f /\ args' = a /\ ret' = r /\ UNCHANGED flVars

\* sequences of at most maxLen distinct elements of S
SeqsNoRepeat(S, maxLen) ==
  UNION {{s \in [1..len -> S] : \A i, j \in 1..len : i # j => s[i] # s[j]} :
         len \in 0..maxLen}

LibraryRule(sc, tg, lid, ver) == [scope |-> sc, target |-> tg, lib_id |-> lid, version |-> ver]

\* rules as _load_library_rules (cetest_prefs.py 51-88) returns them:
\* normalised, with a target unless the scope is all, without duplicates
RuleUniverse ==
  {LibraryRule("all", "", "fmt", "9.0"), LibraryRule("family", "gcc", "fmt", "11.0"),
   LibraryRule("compiler", "g132", "fmt", "13.0"),
   LibraryRule("family", "clang", "fmt", "10.0"),
   LibraryRule("all", "", "boost", "1.80")}

\* compilers as (family, id)
LibCompilers == {<<"gcc", "g132">>, <<"gcc", "g100">>, <<"clang", "clang15">>}

InitLibs ==
  /\ jobs = <<>>
  /\ library_rules \in SeqsNoRepeat(RuleUniverse, MaxRules)
  /\ WorkerInit
  /\ RlInit

\* _effective_libraries_for_compiler called for one compiler
CallEffectiveLibraries ==
  /\ \E c \in LibCompilers :
       Call("_effective_libraries_for_compiler", c,
            effective_libraries_for_compiler(library_rules, c[1], c[2]))
  /\ UNCHANGED engineVars

NextLibs == CallEffectiveLibraries

SpecLibs == InitLibs /\ [][NextLibs]_vars

\* ==========================================================================
\* flatten_user_includes (cetest_preprocess.py 340-504)
\* ==========================================================================

\* a line of a file: kind "text", "pragma_once", "include" (a quoted include
\* of name) or "angle"; the output holds such lines and the inserted markers
Line(k, nm, no) == [kind |-> k, name |-> nm, no |-> no]
Text(s) == Line("text", s, 0)
PragmaOnce == Line("pragma_once", "", 0)
Include(nm) == Line("include", nm, 0)
AngleInclude(nm) == Line("angle", nm, 0)

MarkerKinds == {"cycle", "duplicate", "begin", "end", "inlined", "line"}
IsMarker(l) == l.kind \in MarkerKinds

\* every include line is taken for a quoted one
IsQuotedIncludeAny(l) == l.kind \in {"include", "angle"}
\* line 337: _RE_INCLUDE_QUOTED matches the line
IsQuotedInclude(l) == l.kind = "include"

\* no line is taken for a pragma once line
StripsNothing(l) == FALSE
\* line 474: strip_pragma_once and the line is a pragma once line
Strips(l) == flags.strip_pragma_once /\ l.kind = "pragma_once"

\* _resolve_include (423-434) for a project kept in one directory
resolve_include(nm, including) == IF nm \in DOMAIN files THEN Some(nm) ELSE None

\* no cycle check
InStackNever(p) == FALSE
\* line 447: p_abs in stack
InStack(p) == \E k \in 1..Len(stack) : stack[k] = p

\* no duplicate check
AlreadyInlinedNever(p) == FALSE
\* line 453: inline_once and p_abs in inlined
AlreadyInlined(p) == flags.inline_once /\ p \in inlined

Debug(l) == IF flags.include_debug_comments THEN <<l>> ELSE <<>>
LineDirective(p, no) == IF flags.emit_line_directives THEN <<Line("line", p, no)>> ELSE <<>>

\* _flatten_file(p), lines 444-468, called with the frames fr below it, the
\* output o and the counters st: what it leaves when it returns at once or
\* when it starts on the lines of p
EnterFile(p, fr, o, st) ==
  IF InStack(p)
    THEN [frames |-> fr, stack |-> stack, inlined |-> inlined,
          out |-> o \o Debug(Line("cycle", p, 0)), stats |-> st, pushed |-> FALSE]
  ELSE IF AlreadyInlined(p)
    THEN [frames |-> fr, stack |-> stack, inlined |-> inlined,
          out |-> o \o Debug(Line("duplicate", p, 0)), stats |-> st, pushed |-> FALSE]
  ELSE [frames |-> Append(fr, [p |-> p, line_no |-> 0]),
        stack |-> Append(stack, p), inlined |-> inlined \cup {p},
        out |-> o \o Debug(Line("begin", p, 0)) \o LineDirective(p, 1),
        stats |-> [st EXCEPT !.files_inlined = @ + 1], pushed |-> TRUE]

RootFile == "main.cpp"

\* what compile_commands_path may name: nothing given ("None"), no file,
\* a file that cannot be read, a file that is not JSON, JSON that is not an
\* array, a JSON array
BuildDatabases == {"None", "missing", "unreadable", "invalid_json", "not_array", "array"}

\* only a path that names no file is refused
BuildDatabaseFailsIfMissing(cc) == cc = "missing"
\* lines 364-374 and 95-102: the path names no file, or read_text or
\* json.loads raises, or the value is not a list
BuildDatabaseFails(cc) == cc \in {"missing", "unreadable", "invalid_json", "not_array"}

\* lines 355-374 and 503: the root and the build database are checked and
\* _flatten_file(root_file) is called
FlattenStart ==
  /\ fl_pc = "idle"
  /\ IF RootFile \notin DOMAIN files \/ BuildDatabaseFails(flags.compile_commands_path)
       THEN /\ fl_pc' = "ValueError"
            /\ UNCHANGED <<frames, stack, inlined, out, stats>>
       ELSE LET e == EnterFile(RootFile, <<>>, <<>>, stats)
            IN  /\ fl_pc' = "run"
                /\ frames' = e.frames /\ stack' = e.stack /\ inlined' = e.inlined
                /\ out' = e.out /\ stats' = e.stats
  /\ UNCHANGED <<engineVars, op, args, ret, files, flags>>

\* lines 470-496: one turn of "for line in src.splitlines(True)"; a call of
\* _flatten_file that returns at once is part of the turn. A call deeper
\* than the interpreter's recursion limit raises RecursionError.
FlattenLine ==
  /\ fl_pc = "run"
  /\ frames # <<>>
  /\ frames[Len(frames)].line_no < Len(files[frames[Len(frames)].p])
  /\ LET top == frames[Len(frames)]
         line_no == top.line_no + 1
         line == files[top.p][line_no]
         fr == [frames EXCEPT ![Len(frames)].line_no = line_no]
         resolved == resolve_include(line.name, top.p)
         seen == [stats EXCEPT !.include_lines_seen = @ + 1]
     IN  IF Strips(line)
           THEN frames' = fr /\ UNCHANGED <<fl_pc, stack, inlined, out, stats>>
         ELSE IF ~IsQuotedInclude(line)
           THEN /\ frames' = fr /\ out' = Append(out, line)
                /\ UNCHANGED <<fl_pc, stack, inlined, stats>>
         ELSE IF resolved = None
           THEN /\ frames' = fr /\ out' = Append(out, line)
                /\ stats' = [seen EXCEPT !.include_lines_unresolved = @ + 1]
                /\ UNCHANGED <<fl_pc, stack, inlined>>
         ELSE LET e == EnterFile(resolved[1], fr,
                                 out \o Debug(Line("inlined", resolved[1], 0)),
                                 [seen EXCEPT !.include_lines_inlined = @ + 1])
              IN  IF e.pushed /\ Len(frames) >= MaxDepth
                    THEN /\ fl_pc' = "RecursionError"
                         /\ UNCHANGED <<frames, stack, inlined, out, stats>>
                    ELSE /\ frames' = e.frames /\ stack' = e.stack
                         /\ inlined' = e.inlined /\ stats' = e.stats
                         /\ out' = IF e.pushed THEN e.out
                                    ELSE e.out \o LineDirective(top.p, line_no + 1)
                         /\ UNCHANGED fl_pc
  /\ UNCHANGED <<engineVars, op, args, ret, files, flags>>

\* the file stays on the stack
stack_popNothing(st) == st
\* line 500: stack.pop()
stack_pop(st) == SubSeq(st, 1, Len(st) - 1)

\* lines 498-501, and line 496 of the caller: the lines of p are done
FlattenReturn ==
  /\ fl_pc = "run"
  /\ frames # <<>>
  /\ frames[Len(frames)].line_no = Len(files[frames[Len(frames)].p])
  /\ LET top == frames[Len(frames)]
         o == out \o Debug(Line("end", top.p, 0))
     IN  /\ stack' = stack_pop(stack)
         /\ frames' = SubSeq(frames, 1, Len(frames) - 1)
         /\ IF Len(frames) = 1
              THEN out' = o /\ fl_pc' = "done"
              ELSE /\ out' = o \o LineDirective(frames[Len(frames) - 1].p,
                                                frames[Len(frames) - 1].line_no + 1)
                   /\ fl_pc' = fl_pc
  /\ UNCHANGED <<engineVars, op, args, ret, files, flags, inlined, stats>>

NextFlatten == FlattenStart \/ FlattenLine \/ FlattenReturn

\* the files of a project, in the order used to list them
FlFiles == <<"main.cpp", "b.h", "c.h", "d.h">>
FlNames == {FlFiles[k] : k \in 1..Len(FlFiles)}

\* include lines as (including file, included file), file by file
IncludeLists(maxInc) ==
  UNION {{e \in [1..k -> (1..Len(FlFiles)) \X (1..Len(FlFiles))] :
            \A i \in 1..(k - 1) : e[i][1] <= e[i + 1][1]} : k \in 0..maxInc}

\* the file: its include lines, then one line of its own
IncludesThenBody(e, f) ==
  LET idx == {i \in 1..Len(e) : e[i][1] = f}
      first == IF idx = {} THEN 0 ELSE CHOOSE i \in idx : \A o \in idx : i <= o
  IN  [j \in 1..Cardinality(idx) |-> Include(FlFiles[e[first + j - 1][2]])]
        \o <<Text(FlFiles[f])>>

Project(e) ==
  [nm \in FlNames |->
     IncludesThenBody(e, CHOOSE f \in 1..Len(FlFiles) : FlFiles[f] = nm)]

NoEngine ==
  /\ jobs = <<>> /\ library_rules = <<>>
  /\ ProbeIdle /\ RlInit /\ rl_since = 0
  /\ CallIdle

FlattenReady ==
  /\ fl_pc = "idle" /\ frames = <<>> /\ stack = <<>> /\ inlined = {}
  /\ out = <<>> /\ stats = NoStats

\* a project of files that include each other
InitFlatten ==
  /\ NoEngine
  /\ files \in {Project(e) : e \in IncludeLists(MaxIncludes)}
  /\ flags \in {[NoFlags EXCEPT !.inline_once = a, !.include_debug_comments = d] :
                  a \in BOOLEAN, d \in BOOLEAN}
  /\ FlattenReady

SpecFlatten == InitFlatten /\ [][NextFlatten]_vars

\* the same call on a smaller project; the call is one thread that runs on
\* until it returns or raises
InitFlattenFair ==
  /\ NoEngine
  /\ files \in {Project(e) : e \in IncludeLists(MaxLoopIncludes)}
  /\ flags \in {[NoFlags EXCEPT !.inline_once = a, !.include_debug_comments = d] :
                  a \in BOOLEAN, d \in BOOLEAN}
  /\ FlattenReady

SpecFlattenFair == InitFlattenFair /\ [][NextFlatten]_vars /\ WF_vars(NextFlatten)

\* lines of a root file without quoted include
RootLines == {Text("int a;"), Text("int b;"), PragmaOnce, AngleInclude("vector")}

SeqsUpTo(S, maxLen) == UNION {[1..len -> S] : len \in 0..maxLen}

Flags == [inline_once : BOOLEAN, strip_pragma_once : BOOLEAN,
          emit_line_directives : BOOLEAN, include_debug_comments : BOOLEAN,
          compile_commands_path : {"None"}]

\* a root file that includes no file of the project
InitFlattenRoot ==
  /\ NoEngine
  /\ files \in {[nm \in {RootFile} |-> ls] : ls \in SeqsUpTo(RootLines, MaxRootLines)}
  /\ flags \in Flags
  /\ FlattenReady

SpecFlattenRoot == InitFlattenRoot /\ [][NextFlatten]_vars

\* ==========================================================================
\* summaries_to_report_dict, report_dict_to_summaries (cetest_app.py 521-611)
\* ==========================================================================

\* CeAttempt and CeGroupSummary with all their fields (cetest_ce.py 303-334);
\* a value that may be None is None or Some(v)
ReportAttempt(pl, se, ct, cid, nm, sv, c, err) ==
  [platform |-> pl, series |-> se, compiler_type |-> ct, compiler_id |-> cid,
   compiler_name |-> nm, semver |-> sv, code |-> c, stderr_text |-> err]
ReportSummary(pl, se, ct, h, l, f, atts, r) ==
  [platform |-> pl, series |-> se, compiler_type |-> ct, highest_supported |-> h,
   lowest_supported |-> l, first_failure |-> f, attempts |-> atts,
   inconclusive_reason |-> r]

\* lines 523-537
att_to_dict(a) ==
  [platform |-> a.platform, series |-> a.series, arch |-> a.platform,
   family |-> a.compiler_type, id |-> a.compiler_id, name |-> a.compiler_name,
   semver |-> a.semver, code |-> a.code, ok |-> (a.code = 0),
   stderr |-> a.stderr_text]

\* lines 539-541
opt_att(a) == IF a = None THEN None ELSE Some(att_to_dict(a[1]))

\* lines 543-560
summaries_to_report_dict(standard, summaries) ==
  [standard |-> standard,
   groups |-> [i \in 1..Len(summaries) |->
     [family |-> summaries[i].compiler_type,
      platform |-> summaries[i].platform,
      series |-> summaries[i].series,
      arch |-> summaries[i].platform,
      highest_supported |-> opt_att(summaries[i].highest_supported),
      lowest_supported |-> opt_att(summaries[i].lowest_supported),
      first_failure |-> opt_att(summaries[i].first_failure),
      attempts |-> [j \in 1..Len(summaries[i].attempts) |->
                      att_to_dict(summaries[i].attempts[j])],
      inconclusive_reason |-> summaries[i].inconclusive_reason]]]

\* "v or default" on a str: the empty string gives way to the default
OrElse(v, default) == IF v = "" THEN default ELSE v

\* lines 570-581
dict_to_att(x) ==
  ReportAttempt(OrElse(OrElse(x.platform, x.arch), "unknown"),
                OrElse(x.series, "(unknown series)"),
                OrElse(x.family, "unknown"),
                OrElse(x.id, ""),
                OrElse(x.name, ""),
                x.semver,
                x.code,
                OrElse(x.stderr, ""))

\* hs_a, ls_a, ff_a (lines 594-596)
opt_dict_to_att(x) == IF x = None THEN None ELSE Some(dict_to_att(x[1]))

\* lines 565-611, for a dict whose "groups" is a list of dicts
report_dict_to_summaries(d) ==
  <<OrElse(d.standard, "c++17"),
    [i \in 1..Len(d.groups) |->
       ReportSummary(OrElse(OrElse(d.groups[i].platform, d.groups[i].arch), "unknown"),
                     OrElse(d.groups[i].series, "(unknown series)"),
                     OrElse(d.groups[i].family, "unknown"),
                     opt_dict_to_att(d.groups[i].highest_supported),
                     opt_dict_to_att(d.groups[i].lowest_supported),
                     opt_dict_to_att(d.groups[i].first_failure),
                     [j \in 1..Len(d.groups[i].attempts) |->
                        dict_to_att(d.groups[i].attempts[j])],
                     d.groups[i].inconclusive_reason)]>>

\* attempts: one that passed, one that failed, the one of a probe error in
\* a group without names, one with empty semver and name
AttemptPassed ==
  ReportAttempt("x86-64", "x86-64 gcc", "gcc", "g132", "x86-64 gcc 13.2",
                Some("13.2.0"), 0, "")
AttemptFailed ==
  ReportAttempt("x86-64", "x86-64 gcc", "gcc", "g101", "x86-64 gcc 10.1",
                Some("10.1.0"), 1, "error: no member named 'x'")
AttemptProbeError ==
  ReportAttempt("", "", "", "", "(probe error)", None, CODE_TRANSPORT_ERROR, "boom")
AttemptBare ==
  ReportAttempt("x86-64", "x86-64 gcc", "gcc", "g132", "", Some(""), CODE_TIMEOUT, "")

\* highest_supported, lowest_supported, first_failure and attempts together
AttemptFields ==
  {<<None, None, None, <<>>>>,
   <<Some(AttemptPassed), Some(AttemptPassed), Some(AttemptFailed),
     <<AttemptPassed, AttemptFailed>>>>,
   <<None, None, Some(AttemptProbeError), <<>>>>,
   <<Some(AttemptBare), None, None, <<AttemptBare>>>>}

\* platform, series and compiler_type together
GroupNames ==
  {<<"x86-64", "x86-64 gcc", "gcc">>, <<"", "x86-64 gcc", "gcc">>,
   <<"x86-64", "", "gcc">>, <<"x86-64", "x86-64 gcc", "">>}

Reasons == {None, Some(""), Some("Timeout talking to Compiler Explorer")}

SummaryUniverse ==
  {ReportSummary(g[1], g[2], g[3], a[1], a[2], a[3], a[4], r) :
     g \in GroupNames, a \in AttemptFields, r \in Reasons}

Standards == {"", "c++20"}

InitReport ==
  /\ jobs = <<>>
  /\ library_rules = <<>>
  /\ WorkerInit
  /\ RlInit
  /\ rl_since = 0

\* a report written and read back, once
CallReportRoundTrip ==
  /\ op = ""
  /\ \E standard \in Standards, summaries \in SeqsUpTo(SummaryUniverse, MaxSummaries) :
       Call("report_dict_to_summaries", <<standard, summaries>>,
            report_dict_to_summaries(summaries_to_report_dict(standard, summaries)))
  /\ UNCHANGED engineVars

NextReport == CallReportRoundTrip

SpecReport == InitReport /\ [][NextReport]_vars

\* ==========================================================================
\* parse_semver_key (cetest_models.py 28-50)
\* ==========================================================================

\* a string is the sequence of its characters; the characters used, in the
\* order of their code points
Chars ==
  <<" ", "(", ")", "+", "-", ".",
    "0", "1", "2", "3", "4", "5", "6", "7", "8", "9",
    "A", "B", "C", "D", "E", "F", "G", "H", "I", "J", "K", "L", "M",
    "N", "O", "P", "Q", "R", "S", "T", "U", "V", "W", "X", "Y", "Z", "_",
    "a", "b", "c", "d", "e", "f", "g", "h", "i", "j", "k", "l", "m",
    "n", "o", "p", "q", "r", "s", "t", "u", "v", "w", "x", "y", "z">>
ord(c) == CHOOSE k \in 1..Len(Chars) : Chars[k] = c

DecimalDigits == <<"0", "1", "2", "3", "4", "5", "6", "7", "8", "9">>
isdigit(c) == \E k \in 1..Len(DecimalDigits) : DecimalDigits[k] = c
DigitValue(c) == (CHOOSE k \in 1..Len(DecimalDigits) : DecimalDigits[k] = c) - 1

RECURSIVE lstrip(_)
lstrip(s) == IF s # <<>> /\ Head(s) = " " THEN lstrip(Tail(s)) ELSE s
RECURSIVE rstrip(_)
rstrip(s) ==
  IF s # <<>> /\ s[Len(s)] = " " THEN rstrip(SubSeq(s, 1, Len(s) - 1)) ELSE s
strip(s) == rstrip(lstrip(s))
UpperCase ==
  <<"A", "B", "C", "D", "E", "F", "G", "H", "I", "J", "K", "L", "M",
    "N", "O", "P", "Q", "R", "S", "T", "U", "V", "W", "X", "Y", "Z">>
LowerCase ==
  <<"a", "b", "c", "d", "e", "f", "g", "h", "i", "j", "k", "l", "m",
    "n", "o", "p", "q", "r", "s", "t", "u", "v", "w", "x", "y", "z">>
lower_char(c) ==
  IF \E k \in 1..26 : UpperCase[k] = c
    THEN LowerCase[CHOOSE k \in 1..26 : UpperCase[k] = c]
    ELSE c
lower(s) == [i \in 1..Len(s) |-> lower_char(s[i])]

\* "w in s"
Contains(s, w) == \E i \in 0..(Len(s) - Len(w)) : SubSeq(s, i + 1, i + Len(w)) = w

\* Python's "<" on str
RECURSIVE StrLess(_, _)
StrLess(x, y) ==
  IF y = <<>> THEN FALSE
  ELSE IF x = <<>> THEN TRUE
  ELSE IF Head(x) # Head(y) THEN ord(Head(x)) < ord(Head(y))
  ELSE StrLess(Tail(x), Tail(y))

\* the length of the longest prefix of digits, (\d+)
RECURSIVE DigitRun(_)
DigitRun(s) == IF s # <<>> /\ isdigit(Head(s)) THEN 1 + DigitRun(Tail(s)) ELSE 0

\* lines 43-45: int(m.group(k) or 0)
RECURSIVE int_of(_)
int_of(ds) ==
  IF ds = <<>> THEN 0
  ELSE 10 * int_of(SubSeq(ds, 1, Len(ds) - 1)) + DigitValue(ds[Len(ds)])

\* no component after the first is taken
DotGroupNone(s) == [g |-> <<>>, rest |-> s]
\* (?:\.(\d+))? at the head of s: the digits taken and what is left
DotGroup(s) ==
  IF Len(s) >= 2 /\ s[1] = "." /\ isdigit(s[2])
    THEN [g |-> SubSeq(s, 2, 1 + DigitRun(Tail(s))),
          rest |-> SubSeq(s, 2 + DigitRun(Tail(s)), Len(s))]
    ELSE [g |-> <<>>, rest |-> s]

\* line 40: re.match(r"^\s*(\d+)(?:\.(\d+))?(?:\.(\d+))?(.*)$", s); the
\* strings have no line break
SemverMatch(s) ==
  LET s0 == lstrip(s)
      n1 == DigitRun(s0)
      d2 == DotGroup(SubSeq(s0, n1 + 1, Len(s0)))
      d3 == DotGroup(d2.rest)
  IN  IF n1 = 0 THEN None
      ELSE Some([g1 |-> SubSeq(s0, 1, n1), g2 |-> d2.g, g3 |-> d3.g, g4 |-> d3.rest])

SemverKeywords ==
  {<<"t", "r", "u", "n", "k">>, <<"h", "e", "a", "d">>, <<"g", "i", "t">>,
   <<"s", "n", "a", "p", "s", "h", "o", "t">>, <<"n", "i", "g", "h", "t", "l", "y">>, <<"t", "i", "p">>}

VeryNew == 9999

\* s is None or a string
parse_semver_key(s) ==
  IF s = <<>> THEN <<0, 0, 0, 0, <<>>>>
  ELSE LET st == lower(strip(s))
           m == SemverMatch(strip(s))
       IN  IF /\ \E k \in SemverKeywords : Contains(st, k)
              /\ ~(st # <<>> /\ isdigit(st[1]))
             THEN <<VeryNew, VeryNew, VeryNew, VeryNew, st>>
           ELSE IF m = None THEN <<0, 0, 0, 0, strip(s)>>
           ELSE LET rest == strip(m[1].g4)
                    tweak == IF \/ Contains(lower(rest), <<"t", "r", "u", "n", "k">>)
                                \/ Contains(lower(rest), <<"g", "i", "t">>)
                               THEN 1 ELSE 0
                IN  <<int_of(m[1].g1), int_of(m[1].g2), int_of(m[1].g3), tweak, rest>>

\* Python's "<" on the keys, as sorted() applies it
KeyLess(x, y) ==
  \E k \in 1..5 :
    /\ \A j \in 1..(k - 1) : x[j] = y[j]
    /\ IF k < 5 THEN x[k] < y[k] ELSE StrLess(x[k], y[k])

\* version strings major[.minor[.patch]] whose components have up to len of
\* these digits
VerDigits == {"0", "1", "9"}
Components(len) == UNION {[1..k -> VerDigits] : k \in 1..len}
Versions(len) ==
  LET C == Components(len)
  IN  C \cup {a \o <<".">> \o b : a \in C, b \in C}
        \cup {a \o <<".">> \o b \o <<".">> \o c : a \in C, b \in C, c \in C}

\* the strings the key is compared on
Landmarks ==
  {<<"1", "4", ".", "2", ".", "0">>, <<"1", "4", ".", "1", ".", "0">>, <<"9", ".", "0">>, <<"9", "9", ".", "0", ".", "0">>, <<"1", "0", ".", "1">>, <<"9", ".", "9", ".", "9">>,
   <<"1", "0", "0", "0", "0">>,
   <<"t", "r", "u", "n", "k">>, <<"n", "i", "g", "h", "t", "l", "y">>}

InitSemver ==
  /\ jobs = <<>>
  /\ library_rules = <<>>
  /\ WorkerInit
  /\ RlInit
  /\ rl_since = 0

\* parse_semver_key called on two strings, once
CallParseSemverKey ==
  /\ op = ""
  /\ \E a \in Versions(MaxDigits) \cup Landmarks, b \in Landmarks :
       Call("parse_semver_key", <<a, b>>, <<parse_semver_key(a), parse_semver_key(b)>>)
  /\ UNCHANGED engineVars

NextSemver == CallParseSemverKey

SpecSemver == InitSemver /\ [][NextSemver]_vars

\* ==========================================================================
\* Grouping the compiler catalog (cetest_models.py 53-258, cetest_app.py
\* 1123-1147).  Strings are sequences of characters; None and "" are both the
\* empty sequence, which every function below treats alike ("if not x",
\* "x or ''").
\* ==========================================================================

\* the string literals of the section, as character sequences
s_sp == <<" ">>
s_lp_git_rp == <<"(", "g", "i", "t", ")">>
s_lp_head_rp == <<"(", "h", "e", "a", "d", ")">>
s_lp_nightly_rp == <<"(", "n", "i", "g", "h", "t", "l", "y", ")">>
s_lp_snapshot_rp == <<"(", "s", "n", "a", "p", "s", "h", "o", "t", ")">>
s_lp_trunk_rp == <<"(", "t", "r", "u", "n", "k", ")">>
s_lp_unknown_sp_series_rp == <<"(", "u", "n", "k", "n", "o", "w", "n", " ", "s", "e", "r", "i", "e", "s", ")">>
s_14_dot_1_dot_0 == <<"1", "4", ".", "1", ".", "0">>
s_14_dot_2_dot_0 == <<"1", "4", ".", "2", ".", "0">>
s_19_dot_0 == <<"1", "9", ".", "0">>
s_2024_dot_0_dot_0 == <<"2", "0", "2", "4", ".", "0", ".", "0">>
s_6502 == <<"6", "5", "0", "2">>
s_9_dot_0_dot_0 == <<"9", ".", "0", ".", "0">>
s_ARM_sp_GCC_sp_14_dot_2_dot_0 == <<"A", "R", "M", " ", "G", "C", "C", " ", "1", "4", ".", "2", ".", "0">>
s_MinGW_sp_gcc_sp_13_dot_1_dot_0 == <<"M", "i", "n", "G", "W", " ", "g", "c", "c", " ", "1", "3", ".", "1", ".", "0">>
s_aarch64 == <<"a", "a", "r", "c", "h", "6", "4">>
s_amd64 == <<"a", "m", "d", "6", "4">>
s_arm == <<"a", "r", "m">>
s_arm64 == <<"a", "r", "m", "6", "4">>
s_armg1420 == <<"a", "r", "m", "g", "1", "4", "2", "0">>
s_armv7 == <<"a", "r", "m", "v", "7">>
s_armv7_sp_a == <<"a", "r", "m", "v", "7", " ", "a">>
s_armv7_dash_a == <<"a", "r", "m", "v", "7", "-", "a">>
s_armv7a == <<"a", "r", "m", "v", "7", "a">>
s_avr == <<"a", "v", "r">>
s_cl == <<"c", "l">>
s_clang == <<"c", "l", "a", "n", "g">>
s_clang_dash_cl == <<"c", "l", "a", "n", "g", "-", "c", "l">>
s_clang_dash_intel == <<"c", "l", "a", "n", "g", "-", "i", "n", "t", "e", "l">>
s_clang900 == <<"c", "l", "a", "n", "g", "9", "0", "0">>
s_dpc_plus_plus == <<"d", "p", "c", "+", "+">>
s_dpcpp == <<"d", "p", "c", "p", "p">>
s_edg == <<"e", "d", "g">>
s_g_plus_plus == <<"g", "+", "+">>
s_g141 == <<"g", "1", "4", "1">>
s_g142 == <<"g", "1", "4", "2">>
s_gcc == <<"g", "c", "c">>
s_gcc_dash == <<"g", "c", "c", "-">>
s_gcc6502 == <<"g", "c", "c", "6", "5", "0", "2">>
s_gnu == <<"g", "n", "u">>
s_gpp == <<"g", "p", "p">>
s_gsnapshot == <<"g", "s", "n", "a", "p", "s", "h", "o", "t">>
s_gxx == <<"g", "x", "x">>
s_hexagon == <<"h", "e", "x", "a", "g", "o", "n">>
s_i686 == <<"i", "6", "8", "6">>
s_icc == <<"i", "c", "c">>
s_icpx == <<"i", "c", "p", "x">>
s_icx == <<"i", "c", "x">>
s_icx202400 == <<"i", "c", "x", "2", "0", "2", "4", "0", "0">>
s_intel == <<"i", "n", "t", "e", "l">>
s_intel_sp_icc == <<"i", "n", "t", "e", "l", " ", "i", "c", "c">>
s_intel_sp_icx == <<"i", "n", "t", "e", "l", " ", "i", "c", "x">>
s_intel_dash_icc == <<"i", "n", "t", "e", "l", "-", "i", "c", "c">>
s_intel_dash_icx == <<"i", "n", "t", "e", "l", "-", "i", "c", "x">>
s_mingw == <<"m", "i", "n", "g", "w">>
s_mingw_dash_clang == <<"m", "i", "n", "g", "w", "-", "c", "l", "a", "n", "g">>
s_mingw_dash_gcc == <<"m", "i", "n", "g", "w", "-", "g", "c", "c">>
s_mips == <<"m", "i", "p", "s">>
s_mips64 == <<"m", "i", "p", "s", "6", "4">>
s_msp430 == <<"m", "s", "p", "4", "3", "0">>
s_msvc == <<"m", "s", "v", "c">>
s_nvc_plus_plus == <<"n", "v", "c", "+", "+">>
s_nvcxx_us_x86_us_cxx24_us_9 == <<"n", "v", "c", "x", "x", "_", "x", "8", "6", "_", "c", "x", "x", "2", "4", "_", "9">>
s_nvhpc == <<"n", "v", "h", "p", "c">>
s_oneapi == <<"o", "n", "e", "a", "p", "i">>
s_ppc64le == <<"p", "p", "c", "6", "4", "l", "e">>
s_qnx == <<"q", "n", "x">>
s_riscv64 == <<"r", "i", "s", "c", "v", "6", "4">>
s_s390x == <<"s", "3", "9", "0", "x">>
s_unknown == <<"u", "n", "k", "n", "o", "w", "n">>
s_vc == <<"v", "c">>
s_vcpp_us_v19_us_x64 == <<"v", "c", "p", "p", "_", "v", "1", "9", "_", "x", "6", "4">>
s_visual == <<"v", "i", "s", "u", "a", "l">>
s_visual_sp_studio == <<"v", "i", "s", "u", "a", "l", " ", "s", "t", "u", "d", "i", "o">>
s_wasm32 == <<"w", "a", "s", "m", "3", "2">>
s_wasm64 == <<"w", "a", "s", "m", "6", "4">>
s_win32 == <<"w", "i", "n", "3", "2">>
s_win32_dash_mingw_dash_clang == <<"w", "i", "n", "3", "2", "-", "m", "i", "n", "g", "w", "-", "c", "l", "a", "n", "g">>
s_win32_dash_mingw_dash_gcc == <<"w", "i", "n", "3", "2", "-", "m", "i", "n", "g", "w", "-", "g", "c", "c">>
s_win32_dash_vc == <<"w", "i", "n", "3", "2", "-", "v", "c">>
s_x64 == <<"x", "6", "4">>
s_x64_sp_msvc_sp_v19_dot_0 == <<"x", "6", "4", " ", "m", "s", "v", "c", " ", "v", "1", "9", ".", "0">>
s_x86 == <<"x", "8", "6">>
s_x86_dash_64 == <<"x", "8", "6", "-", "6", "4">>
s_x86_dash_64_sp_clang_sp_9_dot_0_dot_0 == <<"x", "8", "6", "-", "6", "4", " ", "c", "l", "a", "n", "g", " ", "9", ".", "0", ".", "0">>
s_x86_dash_64_sp_gcc_sp_lp_trunk_rp == <<"x", "8", "6", "-", "6", "4", " ", "g", "c", "c", " ", "(", "t", "r", "u", "n", "k", ")">>
s_x86_dash_64_sp_gcc_sp_14_dot_1_dot_0 == <<"x", "8", "6", "-", "6", "4", " ", "g", "c", "c", " ", "1", "4", ".", "1", ".", "0">>
s_x86_dash_64_sp_gcc_sp_14_dot_2_dot_0 == <<"x", "8", "6", "-", "6", "4", " ", "g", "c", "c", " ", "1", "4", ".", "2", ".", "0">>
s_x86_dash_64_sp_icx_sp_2024_dot_0_dot_0 == <<"x", "8", "6", "-", "6", "4", " ", "i", "c", "x", " ", "2", "0", "2", "4", ".", "0", ".", "0">>
s_x86_dash_64_sp_nvc_plus_plus_sp_24_dot_9 == <<"x", "8", "6", "-", "6", "4", " ", "n", "v", "c", "+", "+", " ", "2", "4", ".", "9">>
s_x8664 == <<"x", "8", "6", "6", "4">>
s_x86_us_64 == <<"x", "8", "6", "_", "6", "4">>
s_zz == <<"z", "z">>

\* \w of the re module, on the characters of Chars
IsWordChar(c) == c \notin {" ", "(", ")", "+", "-", "."}

\* s.startswith(p)
StartsWith(s, p) == Len(s) >= Len(p) /\ SubSeq(s, 1, Len(p)) = p

\* s.endswith(p)
EndsWith(s, p) == Len(s) >= Len(p) /\ SubSeq(s, Len(s) - Len(p) + 1, Len(s)) = p

\* re.search(r"\bw\b", s) for a word w of word characters
WordAt(s, w) ==
  \E i \in 0..(Len(s) - Len(w)) :
    /\ SubSeq(s, i + 1, i + Len(w)) = w
    /\ (i = 0 \/ ~IsWordChar(s[i]))
    /\ (i + Len(w) = Len(s) \/ ~IsWordChar(s[i + Len(w) + 1]))

\* re.search(r"^\s*w1\s+w2\b", s)
LeadingWords(s, w1, w2) ==
  LET a == lstrip(s)
      b == SubSeq(a, Len(w1) + 1, Len(a))
      c == lstrip(b)
  IN  /\ StartsWith(a, w1)
      /\ b # <<>> /\ b[1] = " "
      /\ StartsWith(c, w2)
      /\ (Len(c) = Len(w2) \/ ~IsWordChar(c[Len(w2) + 1]))

normalize_platform(instruction_set) ==
  IF instruction_set = <<>> THEN s_unknown
  ELSE LET s == strip(instruction_set)
           sl == lower(s)
       IN  IF s = <<>> THEN s_unknown
           ELSE IF sl \in {s_amd64, s_x86_us_64, s_x86_dash_64, s_x64} THEN s_x86_dash_64
           ELSE IF sl = s_arm64 THEN s_aarch64
           ELSE s

\* the pattern table of parse_platform_from_name: the canonical label and the
\* words whose \b...\b occurrence selects it, in the order they are tried
PlatformPatterns ==
  << <<s_armv7_dash_a, {s_armv7_dash_a, s_armv7_sp_a, s_armv7a, s_armv7}>>,
     <<s_aarch64, {s_aarch64, s_arm64}>>,
     <<s_x86_dash_64, {s_x86_dash_64, s_x86_us_64, s_x8664, s_amd64, s_x64}>>,
     <<s_x86, {s_x86, s_i686}>>,
     <<s_riscv64, {s_riscv64}>>,
     <<s_ppc64le, {s_ppc64le}>>,
     <<s_s390x, {s_s390x}>>,
     <<s_wasm32, {s_wasm32}>>,
     <<s_wasm64, {s_wasm64}>>,
     <<s_msp430, {s_msp430}>>,
     <<s_avr, {s_avr}>>,
     <<s_6502, {s_6502}>>,
     <<s_mips64, {s_mips64}>>,
     <<s_mips, {s_mips}>>,
     <<s_hexagon, {s_hexagon}>>,
     <<s_qnx, {s_qnx}>> >>

PatternHits(s, k) == \E w \in PlatformPatterns[k][2] : WordAt(s, w)

parse_platform_from_name(name) ==
  IF name = <<>> THEN None
  ELSE LET s == lower(name)
       IN  IF LeadingWords(s, s_arm, s_gcc) THEN Some(s_arm)
           ELSE IF LeadingWords(s, s_arm64, s_msvc) THEN Some(s_aarch64)
           ELSE IF LeadingWords(s, s_arm, s_msvc) THEN Some(s_arm)
           ELSE IF \E k \in 1..Len(PlatformPatterns) : PatternHits(s, k)
             THEN Some(PlatformPatterns[
                    CHOOSE k \in 1..Len(PlatformPatterns) :
                      /\ PatternHits(s, k)
                      /\ \A j \in 1..(k - 1) : ~PatternHits(s, j)][1])
           ELSE None

parse_platform_from_id(cid) ==
  IF cid = <<>> THEN None
  ELSE LET s == lower(strip(cid))
       IN  IF s = <<>> THEN None
           ELSE IF StartsWith(s, s_arm) THEN Some(s_arm)
           ELSE IF StartsWith(s, s_msp430) THEN Some(s_msp430)
           ELSE IF StartsWith(s, s_avr) THEN Some(s_avr)
           ELSE IF StartsWith(s, s_gcc6502) \/ Contains(s, s_6502) THEN Some(s_6502)
           ELSE IF StartsWith(s, s_hexagon) THEN Some(s_hexagon)
           ELSE IF StartsWith(s, s_qnx) THEN Some(s_qnx)
           ELSE None

platform_label(c) ==
  LET a == normalize_platform(c.instruction_set)
      p == parse_platform_from_name(c.name)
      pid == parse_platform_from_id(c.id)
  IN  IF a # s_unknown THEN a
      ELSE IF p # None THEN p[1]
      ELSE IF pid # None THEN pid[1]
      ELSE s_unknown

\* name[::-1].replace(sem[::-1], "", 1)[::-1]: name without the last
\* occurrence of sem
RemoveLast(name, sem) ==
  LET at == {i \in 0..(Len(name) - Len(sem)) : SubSeq(name, i + 1, i + Len(sem)) = sem}
      i == CHOOSE k \in at : \A j \in at : j <= k
  IN  SubSeq(name, 1, i) \o SubSeq(name, i + Len(sem) + 1, Len(name))

\* re.sub(r"\s*\((?:trunk|head|snapshot|nightly|git)\)\s*$", "", name,
\* flags=re.IGNORECASE), on a stripped name
SnapshotSuffixes == {s_lp_trunk_rp, s_lp_head_rp, s_lp_snapshot_rp, s_lp_nightly_rp, s_lp_git_rp}

DropSnapshotSuffix(name) ==
  IF \E w \in SnapshotSuffixes : EndsWith(lower(name), w)
    THEN LET w == CHOOSE x \in SnapshotSuffixes : EndsWith(lower(name), x)
         IN  rstrip(SubSeq(name, 1, Len(name) - Len(w)))
    ELSE name

\* (?:v)?\d+(?:\.\d+){0,3}([^\w].*)?$ matches t from its first character: an
\* optional v, digits, and then the end or a character that is not \w (the
\* dotted groups and the tail are optional and the tail takes the rest)
VersionTail(t) ==
  LET u == IF t # <<>> /\ lower_char(t[1]) = "v" THEN Tail(t) ELSE t
      d == DigitRun(u)
  IN  d >= 1 /\ (Len(u) = d \/ ~IsWordChar(u[d + 1]))

\* re.sub(r"\s+(?:v)?\d+(?:\.\d+){0,3}([^\w].*)?$", "", name): the leftmost
\* match runs to the end of the name
DropVersionSuffix(name) ==
  LET at == {p \in 1..Len(name) :
               name[p] = " " /\ VersionTail(lstrip(SubSeq(name, p, Len(name))))}
  IN  IF at = {} THEN name
      ELSE SubSeq(name, 1, (CHOOSE p \in at : \A q \in at : p <= q) - 1)

series_label(c) ==
  LET name0 == strip(c.name)
      sem == strip(c.semver)
      name2 == IF sem # <<>> /\ Contains(name0, sem)
                 THEN strip(RemoveLast(name0, sem)) ELSE <<>>
      name1 == IF name2 # <<>> THEN name2 ELSE name0
      name3 == strip(DropVersionSuffix(strip(DropSnapshotSuffix(name1))))
  IN  IF name0 = <<>> THEN s_lp_unknown_sp_series_rp
      ELSE IF name3 # <<>> THEN name3
      ELSE s_lp_unknown_sp_series_rp

normalize_family_token(token) ==
  LET ct == lower(strip(token))
  IN  IF ct = <<>> THEN s_unknown
      ELSE IF Contains(ct, s_nvc_plus_plus) \/ Contains(ct, s_nvhpc) THEN s_nvc_plus_plus
      ELSE IF ct = s_clang_dash_intel THEN s_intel_dash_icx
      ELSE IF ct = s_clang_dash_cl THEN s_clang_dash_cl
      ELSE IF ct = s_win32_dash_mingw_dash_gcc THEN s_mingw_dash_gcc
      ELSE IF ct = s_win32_dash_mingw_dash_clang THEN s_mingw_dash_clang
      ELSE IF ct = s_win32_dash_vc THEN s_msvc
      ELSE IF Contains(ct, s_icpx) THEN s_intel_dash_icx
      ELSE IF Contains(ct, s_icx) THEN s_intel_dash_icx
      ELSE IF Contains(ct, s_icc) THEN s_intel_dash_icc
      ELSE IF Contains(ct, s_gcc) \/ Contains(ct, s_g_plus_plus) \/ ct \in {s_gpp, s_gxx, s_gnu}
        THEN s_gcc
      ELSE IF Contains(ct, s_clang) THEN s_clang
      ELSE IF Contains(ct, s_win32) /\ Contains(ct, s_mingw) /\ Contains(ct, s_gcc)
        THEN s_mingw_dash_gcc
      ELSE IF Contains(ct, s_win32) /\ Contains(ct, s_mingw) /\ Contains(ct, s_clang)
        THEN s_mingw_dash_clang
      ELSE IF Contains(ct, s_msvc) \/ Contains(ct, s_visual) \/ ct \in {s_cl, s_vc}
        THEN s_msvc
      ELSE IF Contains(ct, s_icx) \/ Contains(ct, s_icc) \/ Contains(ct, s_intel)
        THEN s_intel
      ELSE ct

guess_family(c) ==
  LET fam0 == normalize_family_token(c.compiler_type)
      hay == lower(c.name \o s_sp \o c.id \o s_sp \o c.compiler_type)
  IN  IF Contains(hay, s_nvc_plus_plus) \/ Contains(hay, s_nvhpc) THEN s_nvc_plus_plus
      ELSE IF fam0 \in {s_clang_dash_cl, s_mingw_dash_gcc, s_mingw_dash_clang, s_msvc} THEN fam0
      ELSE IF \/ WordAt(hay, s_icpx) \/ Contains(hay, s_oneapi)
              \/ Contains(hay, s_dpc_plus_plus) \/ Contains(hay, s_dpcpp)
        THEN s_intel_dash_icx
      ELSE IF WordAt(hay, s_icx) \/ Contains(hay, s_intel_sp_icx) THEN s_intel_dash_icx
      ELSE IF WordAt(hay, s_icc) \/ Contains(hay, s_intel_sp_icc) THEN s_intel_dash_icc
      ELSE IF fam0 # s_unknown /\ fam0 # s_intel THEN fam0
      ELSE IF \/ Contains(hay, s_g_plus_plus) \/ WordAt(hay, s_gcc)
              \/ Contains(hay, s_gcc_dash) \/ Contains(hay, s_mingw)
        THEN (IF Contains(hay, s_mingw) THEN s_mingw_dash_gcc ELSE s_gcc)
      ELSE IF Contains(hay, s_clang)
        THEN (IF Contains(hay, s_mingw) THEN s_mingw_dash_clang ELSE s_clang)
      ELSE IF \/ Contains(hay, s_msvc) \/ Contains(hay, s_win32)
              \/ Contains(hay, s_visual_sp_studio) \/ Contains(hay, s_win32_dash_vc)
              \/ WordAt(hay, s_cl)
        THEN s_msvc
      ELSE IF c.id # <<>> /\ lower_char(c.id[1]) = "g" THEN s_gcc
      ELSE IF c.id # <<>> /\ lower_char(c.id[1]) = "c" THEN s_clang
      ELSE IF fam0 = s_intel THEN s_intel
      ELSE s_unknown

CompilerInfo(id, name, compiler_type, semver, instruction_set) ==
  [id |-> id, name |-> name, compiler_type |-> compiler_type,
   semver |-> semver, instruction_set |-> instruction_set]

\* the key of the list that the setdefault chain of line 1133 appends c to
GroupKey(c) == <<guess_family(c), platform_label(c), series_label(c)>>

\* the loop of lines 1129-1134: the nested dicts as one table from
\* (family, platform, series) to the list, in catalog order
RECURSIVE group_by(_, _)
group_by(by, compilers) ==
  IF compilers = <<>> THEN by
  ELSE LET c == Head(compilers)
           k == GroupKey(c)
           lst == IF k \in DOMAIN by THEN by[k] ELSE <<>>
       IN  group_by([g \in (DOMAIN by) \cup {k} |->
                       IF g = k THEN Append(lst, c) ELSE by[g]],
                    Tail(compilers))

\* x goes behind every element whose key is not smaller than its own
RECURSIVE insert_reverse(_, _)
insert_reverse(lst, x) ==
  IF lst = <<>> THEN <<x>>
  ELSE IF KeyLess(parse_semver_key(Head(lst).semver), parse_semver_key(x.semver))
    THEN <<x>> \o lst
    ELSE <<Head(lst)>> \o insert_reverse(Tail(lst), x)

RECURSIVE sort_from(_, _)
sort_from(done, lst) ==
  IF lst = <<>> THEN done ELSE sort_from(insert_reverse(done, Head(lst)), Tail(lst))

\* lst.sort(key=lambda x: parse_semver_key(x.semver), reverse=True): stable,
\* equal keys keep the order they had
sort_reverseUnsorted(lst) == lst
sort_reverse(lst) == sort_from(<<>>, lst)

\* self._by_family_platform_series after _on_compilers_loaded(compilers)
on_compilers_loaded(compilers) ==
  LET by == group_by(<<>>, compilers)
  IN  [k \in DOMAIN by |-> sort_reverse(by[k])]

\* the catalog entries the model loads
CatalogEntries ==
  { CompilerInfo(s_g142, s_x86_dash_64_sp_gcc_sp_14_dot_2_dot_0, s_gcc, s_14_dot_2_dot_0, s_amd64),
    CompilerInfo(s_g141, s_x86_dash_64_sp_gcc_sp_14_dot_1_dot_0, s_gcc, s_14_dot_1_dot_0, s_amd64),
    CompilerInfo(s_gsnapshot, s_x86_dash_64_sp_gcc_sp_lp_trunk_rp, s_gcc, s_lp_trunk_rp, s_amd64),
    CompilerInfo(s_clang900, s_x86_dash_64_sp_clang_sp_9_dot_0_dot_0, s_clang, s_9_dot_0_dot_0, s_amd64),
    CompilerInfo(s_armg1420, s_ARM_sp_GCC_sp_14_dot_2_dot_0, s_gcc, s_14_dot_2_dot_0, <<>>),
    CompilerInfo(s_icx202400, s_x86_dash_64_sp_icx_sp_2024_dot_0_dot_0, <<>>, s_2024_dot_0_dot_0, s_amd64),
    CompilerInfo(s_vcpp_us_v19_us_x64, s_x64_sp_msvc_sp_v19_dot_0, s_win32_dash_vc, s_19_dot_0, <<>>),
    CompilerInfo(s_zz, <<>>, <<>>, <<>>, <<>>) }

Catalogs == UNION {[1..k -> CatalogEntries] : k \in 0..MaxCatalog}

InitCatalog ==
  /\ jobs = <<>>
  /\ library_rules = <<>>
  /\ WorkerInit
  /\ RlInit
  /\ rl_since = 0

\* the catalog arrives: _on_compilers_loaded(compilers)
CallOnCompilersLoaded ==
  /\ op = ""
  /\ \E compilers \in Catalogs :
       Call("_on_compilers_loaded", <<compilers>>, <<on_compilers_loaded(compilers)>>)
  /\ UNCHANGED engineVars

NextCatalog == CallOnCompilersLoaded

SpecCatalog == InitCatalog /\ [][NextCatalog]_vars

\* names, ids and compilerType values of catalog records, for guess_family
FamilyNames ==
  {s_x86_dash_64_sp_gcc_sp_14_dot_2_dot_0, s_x86_dash_64_sp_clang_sp_9_dot_0_dot_0, s_x86_dash_64_sp_icx_sp_2024_dot_0_dot_0,
   s_x86_dash_64_sp_nvc_plus_plus_sp_24_dot_9, s_x64_sp_msvc_sp_v19_dot_0, s_MinGW_sp_gcc_sp_13_dot_1_dot_0, <<>>}
FamilyIds == {s_g142, s_clang900, s_icx202400, s_nvcxx_us_x86_us_cxx24_us_9, s_vcpp_us_v19_us_x64, s_zz}
FamilyTypes == {s_gcc, s_clang, s_clang_dash_intel, s_win32_dash_vc, s_nvhpc, s_intel, s_edg, <<>>}

\* guess_family called on one record
CallGuessFamily ==
  /\ op = ""
  /\ \E name \in FamilyNames, id \in FamilyIds, ct \in FamilyTypes :
       LET c == CompilerInfo(id, name, ct, <<>>, <<>>)
       IN  Call("guess_family", <<c>>, <<guess_family(c)>>)
  /\ UNCHANGED engineVars

NextFamily == CallGuessFamily

SpecFamily == InitCatalog /\ [][NextFamily]_vars

\* ==========================================================================
\* Properties
\* ==========================================================================

\* _probe_group_binary has returned a summary that run() is about to emit
Returned == pc = "emit"

Tested == DOMAIN attempts_by_idx
\* the attempt carries one of the two network-fault codes
IsFault(att) == att.code \in {CODE_TIMEOUT, CODE_TRANSPORT_ERROR}
FaultAt(i) == i \in Tested /\ IsFault(attempts_by_idx[i])
\* the compiler answered with a non-zero code of its own
FailsAt(i) == i \in Tested /\ attempts_by_idx[i].code # 0 /\ ~IsFault(attempts_by_idx[i])
PassesAt(i) == i \in Tested /\ attempts_by_idx[i].code = 0

GroupDone == SelectSeq(events, LAMBDA e : e.kind = "group_done")
LastEvent == events[Len(events)]

\* the outcomes seen are those of a list that passes up to index k and fails
\* after it (the search depends on the outcomes of the tested indices only)
Monotone(k) == \A i \in Tested : IF i <= k THEN PassesAt(i) ELSE FailsAt(i)

RECURSIVE CeilLog2From(_, _, _)
CeilLog2From(m, e, p) == IF p >= m THEN e ELSE CeilLog2From(m, e + 1, 2 * p)
CeilLog2(m) == CeilLog2From(m, 0, 1)

\* C1: for a list of n >= 2 compilers that pass up to index k (0 <= k < n-1)
\* and fail after it, the returned summary has lowest_supported = attempt k,
\* first_failure = attempt k+1, highest_supported = attempt 0 and no
\* inconclusive_reason.
C1_Boundary ==
  (Returned /\ n >= 2) =>
    \A k \in 0..(n - 2) :
      Monotone(k) =>
        /\ k \in Tested /\ (k + 1) \in Tested
        /\ summary.lowest_supported = Some(attempts_by_idx[k])
        /\ summary.first_failure = Some(attempts_by_idx[k + 1])
        /\ summary.highest_supported = Some(attempts_by_idx[0])
        /\ summary.inconclusive_reason = "None"

C1_Witness ==
  /\ Returned /\ n = 16 /\ Monotone(5)
  /\ summary.lowest_supported = Some(CeAttempt(5, 0))
  /\ summary.first_failure = Some(CeAttempt(6, 1))

\* C2: one run of _probe_group_binary over n >= 1 compilers issues at most
\* ceil(log2(n)) + 2 compile calls, whatever the outcomes.
C2_LogCalls ==
  (compile_calls # <<>>) => Len(compile_calls) <= CeilLog2(n) + 2

C2_Witness == Returned /\ n = 16 /\ Len(compile_calls) = 6

\* C3: when the newest compiler answers with a non-zero code of its own,
\* exactly one compile call is issued and the summary holds that one attempt
\* as first_failure, nothing supported and no inconclusive_reason.
C3_NewestFails ==
  (Returned /\ FailsAt(0)) =>
    /\ compile_calls = <<0>>
    /\ summary = CeGroupSummary(None, None, Some(attempts_by_idx[0]),
                                <<attempts_by_idx[0]>>, "None")

C3_Witness == Returned /\ n >= 3 /\ FailsAt(0) /\ summary.first_failure = Some(CeAttempt(0, 1))

\* C4: when newest and oldest of n >= 2 compilers both pass, exactly the two
\* compile calls 0 and n-1 are issued, in that order, and the summary reports
\* newest as highest, oldest as lowest, no first_failure, no reason.
C4_AllPass ==
  (Returned /\ n >= 2 /\ PassesAt(0) /\ PassesAt(n - 1)) =>
    /\ compile_calls = <<0, n - 1>>
    /\ Tested = {0, n - 1}
    /\ summary = CeGroupSummary(Some(attempts_by_idx[0]), Some(attempts_by_idx[n - 1]),
                                None, <<attempts_by_idx[0], attempts_by_idx[n - 1]>>,
                                "None")

C4_Witness == Returned /\ n >= 4 /\ PassesAt(0) /\ PassesAt(n - 1)

\* C5: after a compile call for any tested index ended in a timeout or a
\* transport fault, no further compile call is issued for the group (the
\* faulted index stays the last one compiled) and the returned summary has
\* inconclusive_reason set.
C5_FaultStops ==
  \A i \in Tested :
    IsFault(attempts_by_idx[i]) =>
      /\ compile_calls # <<>>
      /\ compile_calls[Len(compile_calls)] = i
      /\ (Returned => summary.inconclusive_reason # "None")

C5_Witness ==
  /\ Returned /\ n >= 5
  /\ \E i \in 1..(n - 2) : FaultAt(i) /\ Len(compile_calls) >= 4

CancelObserved ==
  \/ exc = "CancelledByUser"
  \/ (pc = "rate_wait" /\ rl_pc[Worker] = "cancelled")

Aborted == Ev("aborted", 0, "None")

C8_ErrorContained ==
  [][ /\ (pc = "group_except" /\ exc # "CancelledByUser" /\ pc' # pc) =>
           /\ events' = Append(events, Ev("group_done", jidx, "Probe error"))
           /\ pc' = "run_loop"
           /\ jidx' = jidx + 1
      /\ \A k \in 1..Len(events') : events'[k].kind # "failed"
      /\ (pc' = "done" /\ exc' # "CancelledByUser") =>
           /\ events'[Len(events')].kind = "finished"
           /\ Len(events') = Len(jobs) + 1
           /\ \A j \in 1..Len(jobs) :
                events'[j].kind = "group_done" /\ events'[j].job = j
    ]_vars

C8_Witness ==
  /\ pc = "done" /\ Len(jobs) = 2
  /\ events = <<Ev("group_done", 1, "Probe error"), Ev("group_done", 2, "None"),
                Ev("finished", 0, "None")>>

\* C9: the group_done events emitted so far are those of the jobs before the
\* current one, in job order, so every compile call of a job is issued after
\* the group_done of the job before it; a finished run has emitted exactly
\* one group_done per job.
C9_Incremental ==
  /\ Len(GroupDone) = jidx - 1
  /\ \A k \in 1..Len(GroupDone) : GroupDone[k].job = k /\ events[k] = GroupDone[k]
  /\ (events # <<>> /\ LastEvent.kind = "finished") => Len(GroupDone) = Len(jobs)

C9_Witness ==
  /\ pc = "http" /\ jidx = 2
  /\ events = <<Ev("group_done", 1, "None")>>

\* C10: any two calls of RateLimiter.wait that return normally, from
\* whatever threads, are released at least MinInterval apart.
C10_MinGap == rl_stamps >= 2 => rl_gap >= MinInterval

C10_Witness ==
  /\ rl_stamps = 2
  /\ rl_pc[1] = "returned" /\ rl_pc[2] = "returned"
  /\ rl_ev[1] # rl_ev[2]

\* a call of _request_json is in progress
InRequest == pc \in {"req_loop", "rate_wait", "http", "sleep"}

\* the part of C11 about the attempt cap: the HTTP attempt in progress is one
\* of the attempts 1..6, a retryable failure of an attempt before the 6th is
\* followed by the backoff wait, one of the 6th is raised to the caller
C11_AttemptCap ==
  [][ /\ InRequest' => attempt' \in 0..(max_retries - 1)
      /\ (pc = "http" /\ pc' = "sleep") => attempt < max_retries - 1
      /\ (pc = "http" /\ attempt = max_retries - 1 /\ pc' # pc) =>
           pc' \in {"test_resp", "test_except"}
      /\ (pc = "sleep" /\ pc' = "req_loop") => attempt' = attempt + 1
    ]_vars

\* C11: one call of _request_json makes at most 6 HTTP attempts and always
\* terminates: whatever the service answers, a call in progress returns a
\* response or raises.
C11_Terminates == InRequest ~> ~InRequest

\* C12: an HTTP error whose status is not retryable is raised to the caller
\* on the attempt where it occurs: the step that receives it hands HTTPError
\* to the caller without a backoff wait, a wait is only ever entered for a
\* retryable status or a failure without status, and no request step follows
\* the raise.
C12_NonRetryableRaised ==
  [][ /\ (pc = "http" /\ http_code' \notin {0, 408, 429, 500, 502, 503, 504}) =>
           /\ pc' = "test_except" /\ exc' = "HTTPError"
           /\ attempt' = attempt
      /\ pc' = "sleep" => http_code' \in {0, 408, 429, 500, 502, 503, 504}
      /\ pc = "test_except" => ~InRequest'
    ]_vars

C12_Witness ==
  /\ pc = "test_except" /\ exc = "HTTPError" /\ http_code = 404
  /\ attempt = 2

\* C13: once compile_cached has returned a response for a call (compiler,
\* arguments, library set, source), a later call with an equal key returns
\* that response from the cache, without passing the rate limiter or sending
\* a request; a call that no earlier call equals gets nothing from the
\* cache; an entry stays in the cache for the life of the client.
C13_CacheHit ==
  [][ /\ (pc = "compile" /\ pc' # pc) =>
           IF CallKey \in DOMAIN served
             THEN /\ pc' = "test_resp" /\ hit'
                  /\ resp' = served[CallKey]
                  /\ rl_pc' = rl_pc /\ rl_stamps' = rl_stamps
             ELSE pc' # "test_resp"
      /\ \A c \in DOMAIN served :
           /\ CacheKey(c[1], c[2], c[4]) \in DOMAIN compile_cache'
           /\ compile_cache'[CacheKey(c[1], c[2], c[4])] = served[c]
    ]_vars

C13_Witness ==
  /\ runs = 2 /\ pc = "test_resp" /\ hit
  /\ test_i = 1 /\ resp = [has_code |-> TRUE, code |-> 1]

\* the exceptions a request to the service can end with
RequestFaults == {"HTTPError", "TimeoutError", "ConnectionError", "URLError"}

\* C14: with a non-empty effective library list the compile request is
\* submitted, so the only exceptions that reach test() are those of the
\* request itself or the cancellation: the list alone never makes the
\* attempt a transport-error attempt.
C14_LibsSubmitted ==
  (pc = "test_except" /\ Len(libraries) > 0) =>
    exc \in RequestFaults \cup {"CancelledByUser"}

\* the version the rules of scope sc that match the compiler give to lib
\* ("" when there is none)
ScopeVersion(rules, sc, f, cid, lib) ==
  LET m == {k \in 1..Len(rules) :
              /\ rules[k].scope = sc /\ rules[k].lib_id = lib
              /\ RuleMatches(rules[k], f, cid)}
  IN  IF m = {} THEN "" ELSE rules[CHOOSE k \in m : \A o \in m : k >= o].version

\* compiler scope before family scope before all
MostSpecific(rules, f, cid, lib) ==
  IF ScopeVersion(rules, "compiler", f, cid, lib) # ""
    THEN ScopeVersion(rules, "compiler", f, cid, lib)
  ELSE IF ScopeVersion(rules, "family", f, cid, lib) # ""
    THEN ScopeVersion(rules, "family", f, cid, lib)
  ELSE ScopeVersion(rules, "all", f, cid, lib)

\* the version of lib in a returned list ("" when absent)
VersionIn(libs, lib) ==
  IF \E k \in 1..Len(libs) : libs[k].id = lib
    THEN libs[CHOOSE k \in 1..Len(libs) : libs[k].id = lib].version
    ELSE ""

\* C15: whatever the order of the rules in the list, the effective version
\* of a library for a compiler is that of the matching compiler rule if
\* there is one, else of the matching family rule, else of the all rule.
C15_MostSpecificWins ==
  op = "_effective_libraries_for_compiler" =>
    \A lib \in {"fmt", "boost"} :
      VersionIn(ret, lib) = MostSpecific(library_rules, args[1], args[2], lib)

\* C16: flatten_user_includes on a finite project returns, whatever the
\* include graph (a file that includes itself, A includes B includes A) and
\* whether inline_once is set or not
C16_Returns == <>(fl_pc = "done")

\* a flattening without inline_once that met an include cycle and returned
C16_Witness ==
  /\ fl_pc = "done"
  /\ ~flags.inline_once
  /\ \E i \in 1..Len(out) : out[i].kind = "cycle" /\ out[i].name = "b.h"

NonMarkers(o) == SelectSeq(o, LAMBDA l : l.kind \notin MarkerKinds)

\* root includes b.h and c.h, both include d.h
Diamond == Project(<<<<1, 2>>, <<1, 3>>, <<2, 4>>, <<3, 4>>>>)

\* C17: with inline_once the line of every file is in the output at most
\* once; for the diamond the result holds d.h once, where b.h included it
C17_InlineOnce ==
  flags.inline_once =>
    /\ \A nm \in FlNames :
         Cardinality({i \in 1..Len(out) : out[i] = Text(nm)}) <= 1
    /\ (fl_pc = "done" /\ files = Diamond) =>
         NonMarkers(out) = <<Text("d.h"), Text("b.h"), Text("c.h"), Text("main.cpp")>>

\* the diamond flattened with inline_once: the second include of d.h was
\* skipped as a duplicate
C17_Witness ==
  /\ fl_pc = "done"
  /\ files = Diamond
  /\ flags.inline_once
  /\ \E i \in 1..Len(out) : out[i].kind = "duplicate" /\ out[i].name = "d.h"

\* C18 as stated: a root file without quoted include comes back line for
\* line when emit_line_directives and include_debug_comments are off,
\* whatever the other flags, and differs only by the inserted lines when
\* they are on
C18_RootUnchanged ==
  fl_pc = "done" =>
    /\ NonMarkers(out) = files[RootFile]
    /\ (~flags.emit_line_directives /\ ~flags.include_debug_comments) =>
         out = files[RootFile]

\* C18: a root file without quoted include comes back as its lines, less
\* the pragma once lines when strip_pragma_once is set, between the begin
\* comment and "#line 1" in front and the end comment behind, each present
\* exactly when its flag is set
C18_RootButPragmaOnce ==
  fl_pc = "done" =>
    out = (IF flags.include_debug_comments
             THEN <<Line("begin", RootFile, 0)>> ELSE <<>>)
          \o (IF flags.emit_line_directives
                THEN <<Line("line", RootFile, 1)>> ELSE <<>>)
          \o SelectSeq(files[RootFile],
                       LAMBDA l : ~(flags.strip_pragma_once /\ l = PragmaOnce))
          \o (IF flags.include_debug_comments
                THEN <<Line("end", RootFile, 0)>> ELSE <<>>)

\* a root file with a pragma once line flattened with strip_pragma_once and
\* without directives and comments
C18_Witness ==
  /\ fl_pc = "done"
  /\ flags.strip_pragma_once
  /\ ~flags.emit_line_directives /\ ~flags.include_debug_comments
  /\ files[RootFile] = <<PragmaOnce, AngleInclude("vector"), Text("int a;")>>
  /\ out = <<AngleInclude("vector"), Text("int a;")>>

\* C19: a report written by summaries_to_report_dict and read back by
\* report_dict_to_summaries gives the standard and the summaries it was
\* written from, equal in every field
C19_RoundTrip ==
  op = "report_dict_to_summaries" => ret = args

NoBlankNames(x) == x.platform # "" /\ x.series # "" /\ x.compiler_type # ""

\* the same where the standard and the platform, series and compiler_type of
\* every summary and attempt are not empty
C19_RoundTripNamed ==
  (/\ op = "report_dict_to_summaries"
   /\ args[1] # ""
   /\ \A i \in 1..Len(args[2]) :
        /\ NoBlankNames(args[2][i])
        /\ \A j \in 1..Len(args[2][i].attempts) : NoBlankNames(args[2][i].attempts[j])
        /\ args[2][i].highest_supported # None
             => NoBlankNames(args[2][i].highest_supported[1])
        /\ args[2][i].lowest_supported # None
             => NoBlankNames(args[2][i].lowest_supported[1])
        /\ args[2][i].first_failure # None
             => NoBlankNames(args[2][i].first_failure[1]))
  => ret = args

\* the components of a version string, as numbers
RECURSIVE SplitDots(_)
SplitDots(s) ==
  IF \A i \in 1..Len(s) : s[i] # "." THEN <<s>>
  ELSE LET dot == CHOOSE i \in 1..Len(s) : s[i] = "." /\ \A j \in 1..(i - 1) : s[j] # "."
       IN  <<SubSeq(s, 1, dot - 1)>> \o SplitDots(SubSeq(s, dot + 1, Len(s)))

RECURSIVE Decimal(_)
Decimal(ds) ==
  IF ds = <<>> THEN 0
  ELSE LET d == ds[Len(ds)]
           v == CASE d = "0" -> 0 [] d = "1" -> 1 [] d = "2" -> 2 [] d = "4" -> 4
                  [] d = "9" -> 9
       IN  10 * Decimal(SubSeq(ds, 1, Len(ds) - 1)) + v

IsVersion(s) ==
  LET parts == SplitDots(s)
  IN  /\ Len(parts) <= 3
      /\ \A k \in 1..Len(parts) :
           /\ parts[k] # <<>>
           /\ \A i \in 1..Len(parts[k]) : parts[k][i] \in {"0", "1", "2", "4", "9"}

MajorMinorPatch(s) ==
  LET parts == SplitDots(s)
  IN  [k \in 1..3 |-> IF k <= Len(parts) THEN Decimal(parts[k]) ELSE 0]

NumericLess(x, y) ==
  \/ x[1] < y[1]
  \/ x[1] = y[1] /\ x[2] < y[2]
  \/ x[1] = y[1] /\ x[2] = y[2] /\ x[3] < y[3]

\* C20: on strings major[.minor[.patch]] the keys of parse_semver_key compare
\* as the numbers (major, minor, patch) do, a missing component counting 0;
\* the key of "14.2.0" is above that of "14.1.0", which is above that of
\* "9.0", and those of "trunk" and "nightly" are above that of "99.0.0"
C20_NumericOrder ==
  op = "parse_semver_key" =>
    /\ (IsVersion(args[1]) /\ IsVersion(args[2])) =>
         LET x == MajorMinorPatch(args[1])
             y == MajorMinorPatch(args[2])
         IN  /\ KeyLess(ret[1], ret[2]) <=> NumericLess(x, y)
             /\ KeyLess(ret[2], ret[1]) <=> NumericLess(y, x)
    /\ (args[1] = <<"1", "4", ".", "2", ".", "0">> /\ args[2] = <<"1", "4", ".", "1", ".", "0">>) => KeyLess(ret[2], ret[1])
    /\ (args[1] = <<"1", "4", ".", "1", ".", "0">> /\ args[2] = <<"9", ".", "0">>) => KeyLess(ret[2], ret[1])
    /\ (args[1] \in {<<"t", "r", "u", "n", "k">>, <<"n", "i", "g", "h", "t", "l", "y">>} /\ args[2] = <<"9", "9", ".", "0", ".", "0">>)
         => KeyLess(ret[2], ret[1])

\* the keys of "9.0" and "14.1.0", the first below the second
C20_Witness ==
  /\ op = "parse_semver_key"
  /\ args = <<<<"9", ".", "0">>, <<"1", "4", ".", "1", ".", "0">>>>
  /\ ret = <<<<9, 0, 0, 0, <<>>>>, <<14, 1, 0, 0, <<>>>>>>

\* one of the words that mark a build as very new is in the lowered string
HasNewWord(s) ==
  \E w \in {<<"t", "r", "u", "n", "k">>, <<"h", "e", "a", "d">>, <<"g", "i", "t">>,
            <<"s", "n", "a", "p", "s", "h", "o", "t">>,
            <<"n", "i", "g", "h", "t", "l", "y">>, <<"t", "i", "p">>} :
    \E i \in 0..(Len(s) - Len(w)) :
      \A j \in 1..Len(w) : (IF s[i + j] = "T" THEN "t" ELSE s[i + j]) = w[j]

StartsWithDigit(s) == s # <<>> /\ s[1] \in {"0", "1", "2", "4", "9"}

\* C21: the key of a string with one of the words trunk, head, git, snapshot,
\* nightly, tip that does not start with a digit is above the key of every
\* string that starts with a digit, however large its major component
C21_NewestAboveNumbered ==
  (/\ op = "parse_semver_key"
   /\ HasNewWord(args[1]) /\ ~StartsWithDigit(args[1])
   /\ StartsWithDigit(args[2]))
  => KeyLess(ret[2], ret[1])

\* C22: two different strings never get equal keys
C22_NoTies ==
  (op = "parse_semver_key" /\ args[1] # args[2]) => ret[1] # ret[2]

\* the sum of the lengths of the lists by[k], k in keys
RECURSIVE TotalSize(_, _)
TotalSize(by, keys) ==
  IF keys = {} THEN 0
  ELSE LET k == CHOOSE x \in keys : TRUE
       IN  Len(by[k]) + TotalSize(by, keys \ {k})

\* the number of positions of lst that hold c
Occurrences(lst, c) == Cardinality({i \in 1..Len(lst) : lst[i] = c})

\* C23: after the catalog is loaded every record is in exactly one group list,
\* as often as in the catalog, the group sizes sum to the catalog size, and
\* every group list is in descending order of parse_semver_key
C23_Partition ==
  op = "_on_compilers_loaded" =>
    LET compilers == args[1]
        by == ret[1]
    IN  /\ \A i \in 1..Len(compilers) :
             /\ Cardinality({k \in DOMAIN by : Occurrences(by[k], compilers[i]) > 0}) = 1
             /\ \A k \in DOMAIN by :
                  Occurrences(by[k], compilers[i]) \in {0, Occurrences(compilers, compilers[i])}
        /\ TotalSize(by, DOMAIN by) = Len(compilers)
        /\ \A k \in DOMAIN by :
             /\ by[k] # <<>>
             /\ \A i, j \in 1..Len(by[k]) :
                  i < j => ~KeyLess(parse_semver_key(by[k][i].semver),
                                    parse_semver_key(by[k][j].semver))

\* a catalog of several groups that lists an older compiler of a group before
\* a newer one
C23_Witness ==
  /\ op = "_on_compilers_loaded"
  /\ Cardinality(DOMAIN ret[1]) >= 2
  /\ \E i, j \in 1..Len(args[1]) :
       /\ i < j
       /\ GroupKey(args[1][i]) = GroupKey(args[1][j])
       /\ KeyLess(parse_semver_key(args[1][i].semver), parse_semver_key(args[1][j].semver))

\* the step reads the compile cache (line 236) or writes it (line 274)
CacheAccess ==
  \/ pc = "compile" /\ pc' \in {"test_resp", "req_loop"}
  \/ compile_cache' # compile_cache

\* thread t's step reads and sets the limiter's _last (lines 364 and 374)
StampAccess(t) ==
  \/ rl_pc[t] = "locked" /\ rl_pc'[t] \in {"sleep", "poll", "stamp"}
  \/ rl_pc[t] = "stamp" /\ rl_pc'[t] = "returned"

\* C24: every read and write of the compile cache and of the limiter's
\* last-call timestamp is made by a thread that holds a mutex of the client
C24_InCriticalSection ==
  [][/\ CacheAccess => rl_lock = Worker
     /\ \A t \in Threads : StampAccess(t) => rl_lock = t]_vars

\* the limiter's half: _last is read and set by the holder of its lock
C24_StampUnderLock ==
  [][\A t \in Threads : StampAccess(t) => rl_lock = t]_vars

\* C25: at most one compile request is in flight, in the first probe run and
\* in every later one, and it is the request the running worker waits for
C25_OneInFlight ==
  /\ in_flight <= 1
  /\ in_flight = 1 <=> pc = "http"

\* a later probe run on the same client has a compile request in flight
C25_Witness == runs = 2 /\ in_flight = 1 /\ pc = "http" /\ test_i > 0

\* C26: no caller of the client sleeps a whole limiter wait in one step,
\* without looking at a cancellation signal
C26_NoAtomicSleep == \A t \in Threads : rl_pc[t] # "sleep"

\* the callers that pass an abort event: with the signal set, the thread in
\* the polling loop does not sleep another poll step
C26_EventPolled ==
  [][(/\ rl_lock \in Threads
      /\ rl_pc[rl_lock] = "poll"
      /\ EventSet(rl_lock)
      /\ abort' = abort) => rl_pc' # rl_pc]_vars

\* C27: with the abort signal set, _request_json goes from none of its check
\* points to another HTTP attempt: the check before an attempt raises
\* CancelledByUser, the backoff sleep ends in CancelledByUser or at that check,
\* and a response read is neither returned nor stored
C27_CancelNotRetried ==
  [][abort =>
       /\ (pc \in {"req_loop", "sleep"}) => pc' \notin {"rate_wait", "http"}
       /\ (pc = "req_loop" /\ pc' # pc) =>
            (pc' = "test_except" /\ exc' = "CancelledByUser")
       /\ (pc = "sleep" /\ pc' \notin {"sleep", "req_loop"}) =>
            (pc' = "test_except" /\ exc' = "CancelledByUser")
       /\ (pc = "http") =>
            /\ pc' # "test_resp"
            /\ compile_cache' = compile_cache
            /\ resp' = resp /\ served' = served]_vars

\* a request is cancelled after a failed attempt, with nothing in the cache
C27_Witness ==
  /\ pc = "test_except" /\ exc = "CancelledByUser" /\ abort
  /\ attempt >= 1
  /\ key \notin DOMAIN compile_cache

\* 0.6, 1.2, 2.4, 4.8, 6.0 s and 6.0 s again, in tenths of a second
BackoffTable == <<6, 12, 24, 48, 60, 60>>

\* C28: in a _request_json call the backoff before the retry that follows
\* attempt k is 0.6 s doubled k - 1 times and capped at 6.0 s, whatever the
\* earlier waits were; the wait is the backoff, except after an HTTP error
\* with a numeric Retry-After header, when it is the header's value
C28_Backoff ==
  /\ InRequest => backoff = BackoffTable[attempt + 1]
  /\ pc = "sleep" =>
       wait_s = IF http_code # 0 /\ retry_after = "1" THEN 10
                ELSE IF http_code # 0 /\ retry_after = "inf" THEN Infinity
                ELSE BackoffTable[attempt + 1]

\* the fifth attempt failed with a Retry-After of one second: the wait is one
\* second while the backoff has reached its cap
C28_Witness ==
  /\ pc = "sleep" /\ attempt = 4
  /\ http_code = 503 /\ retry_after = "1"
  /\ wait_s = 10 /\ backoff = BackoffCap

\* C30: test(i) records the response's code, or -1 for a response without
\* code, and leaves inconclusive_reason alone; a timeout raised by the call
\* is recorded as -100 and any other exception but the cancellation as -101,
\* both with inconclusive_reason set; a cancellation records nothing; an
\* attempt is ok exactly when its code is 0
C30_CodeByEnding ==
  [][/\ (pc = "test_resp" /\ pc' # pc) =>
          /\ attempts_by_idx' =
               Put(attempts_by_idx, test_i,
                   CeAttempt(test_i, IF resp.has_code THEN resp.code ELSE -1))
          /\ inconclusive_reason' = inconclusive_reason
     /\ (pc = "test_except" /\ pc' # pc) =>
          IF exc = "CancelledByUser"
            THEN /\ attempts_by_idx' = attempts_by_idx
                 /\ inconclusive_reason' = inconclusive_reason
            ELSE /\ attempts_by_idx' =
                      Put(attempts_by_idx, test_i,
                          CeAttempt(test_i, IF exc = "TimeoutError" THEN -100 ELSE -101))
                 /\ inconclusive_reason' # "None"
     /\ (pc \notin {"test_resp", "test_except"}) =>
          /\ attempts_by_idx' \in {attempts_by_idx, EmptyTable}
          /\ inconclusive_reason' \in {inconclusive_reason, "None"}
     /\ \A i \in DOMAIN attempts_by_idx' :
          ok(attempts_by_idx'[i]) <=> attempts_by_idx'[i].code = 0]_vars

\* one group: a success, a response without code, and a timeout after the
\* retries
C30_Witness ==
  /\ \E i, j, k \in DOMAIN attempts_by_idx :
       /\ attempts_by_idx[i].code = 0
       /\ attempts_by_idx[j].code = -1
       /\ attempts_by_idx[k].code = -100
  /\ inconclusive_reason = "Timeout talking to Compiler Explorer"

\* C29: no index is handed to compile_cached twice in one group probe, and
\* the attempts of a returned summary are the attempts of the indices
\* compiled, one each, in strictly ascending order of index
C29_AttemptsByIndex ==
  /\ \A a, b \in 1..Len(compile_calls) :
       a # b => compile_calls[a] # compile_calls[b]
  /\ Returned =>
       LET atts == summary.attempts
       IN  /\ \A a, b \in 1..Len(atts) : a < b => atts[a].idx < atts[b].idx
           /\ {atts[a].idx : a \in 1..Len(atts)} =
                {compile_calls[a] : a \in 1..Len(compile_calls)}
           /\ \A a \in 1..Len(atts) : atts[a] = attempts_by_idx[atts[a].idx]

\* a search over sixteen compilers that compiled five indices, not in
\* ascending order, and came back to two of them
C29_Witness ==
  /\ Returned /\ n = 16
  /\ Len(summary.attempts) = 5
  /\ \E a \in 1..(Len(compile_calls) - 1) : compile_calls[a] > compile_calls[a + 1]

\* C31: for a record whose normalized compiler type is neither "unknown" nor
\* "intel", guess_family returns that normalized token, whatever the name and
\* the id hold
C31_TypeWins ==
  op = "guess_family" =>
    LET token == normalize_family_token(args[1].compiler_type)
    IN  token \notin {s_unknown, s_intel} => ret[1] = token

\* the same for the records whose name, id and type hold none of the words
\* that guess_family looks for before it returns the token
C31_TypeWinsUnscanned ==
  op = "guess_family" =>
    LET token == normalize_family_token(args[1].compiler_type)
        hay == lower(args[1].name \o <<" ">> \o args[1].id \o <<" ">> \o args[1].compiler_type)
    IN  (/\ token \notin {s_unknown, s_intel}
         /\ ~Contains(hay, s_nvc_plus_plus) /\ ~Contains(hay, s_nvhpc)
         /\ ~WordAt(hay, s_icpx) /\ ~WordAt(hay, s_icx) /\ ~WordAt(hay, s_icc)
         /\ ~Contains(hay, s_oneapi) /\ ~Contains(hay, s_dpc_plus_plus)
         /\ ~Contains(hay, s_dpcpp))
        => ret[1] = token

\* ---- a project with includes that resolve nowhere -------------------------

MaxMixedLines == 2

\* lines of the root: text, a system include, includes of files of the
\* project, an include of a file that exists nowhere
MixedRootLines ==
  {Text("int a;"), PragmaOnce, AngleInclude("vector"),
   Include("b.h"), Include("c.h"), Include("missing.h")}

\* the lines b.h may hold; it may include itself
MixedHeaderLines ==
  {Text("b.h"), AngleInclude("map"), Include("b.h"), Include("c.h"), Include("missing.h")}

MixedProject(root, hdr) ==
  [nm \in {"main.cpp", "b.h", "c.h"} |->
     IF nm = "main.cpp" THEN root ELSE IF nm = "b.h" THEN hdr ELSE <<Text("c.h")>>]

InitFlattenMixed ==
  /\ NoEngine
  /\ files \in {MixedProject(r, h) : r \in SeqsUpTo(MixedRootLines, MaxMixedLines),
                                     h \in [1..2 -> MixedHeaderLines]}
  /\ flags \in {[NoFlags EXCEPT !.inline_once = a, !.strip_pragma_once = s,
                                !.include_debug_comments = d] :
                  a \in BOOLEAN, s \in BOOLEAN, d \in BOOLEAN}
  /\ FlattenReady

SpecFlattenMixed == InitFlattenMixed /\ [][NextFlatten]_vars

\* the line the flattener scans next
ScannedLine == files[frames[Len(frames)].p][frames[Len(frames)].line_no + 1]
Scanning ==
  /\ fl_pc = "run" /\ frames # <<>>
  /\ frames[Len(frames)].line_no < Len(files[frames[Len(frames)].p])

\* C32: the counters satisfy seen = inlined + unresolved in every state; a
\* scanned quoted include line adds one to include_lines_seen and one to
\* exactly one of include_lines_inlined and include_lines_unresolved, the
\* latter exactly when no file of that name exists, and then the line is
\* appended to the output as it is and the run goes on; every other line
\* leaves the counters alone and an angle-bracket include is appended as it is
C32_IncludesCounted ==
  /\ [](stats.include_lines_seen =
          stats.include_lines_inlined + stats.include_lines_unresolved)
  /\ [](fl_pc \notin {"ValueError", "RecursionError"})
  /\ [][Scanning =>
          IF ScannedLine.kind = "include"
            THEN /\ stats'.include_lines_seen = stats.include_lines_seen + 1
                 /\ IF ScannedLine.name \in DOMAIN files
                      THEN /\ stats'.include_lines_inlined = stats.include_lines_inlined + 1
                           /\ stats'.include_lines_unresolved = stats.include_lines_unresolved
                      ELSE /\ stats'.include_lines_unresolved = stats.include_lines_unresolved + 1
                           /\ stats'.include_lines_inlined = stats.include_lines_inlined
                           /\ out' = Append(out, ScannedLine)
                           /\ fl_pc' = "run"
            ELSE /\ stats' = stats
                 /\ ScannedLine.kind = "angle" => out' = Append(out, ScannedLine)]_vars

\* a finished run that inlined b.h, left the include of missing.h in the
\* output between two lines of the root and passed a system include through
C32_Witness ==
  /\ fl_pc = "done"
  /\ files["main.cpp"] = <<Include("b.h"), Include("missing.h")>>
  /\ files["b.h"] = <<AngleInclude("map"), Text("b.h")>>
  /\ NonMarkers(out) = <<AngleInclude("map"), Text("b.h"), Include("missing.h")>>
  /\ stats.include_lines_seen = 2
  /\ stats.include_lines_inlined = 1
  /\ stats.include_lines_unresolved = 1

\* ---- _resolve_include with directories ------------------------------------

MaxArgs == 2
MaxExtraDirs == 1

\* the directory of the including file and the directories named by the
\* build database or by the user
IncludingDir == "src"
SearchDirs == {"inc", "third", "sys"}

\* an include option of the chosen build-database entry, as
\* _iter_include_dirs_from_args (33-86) reads it: kind is "iquote", "I" or
\* "isystem"
DirArg(k, d) == [kind |-> k, dir |-> d]
DirArgs == {DirArg(k, d) : k \in {"iquote", "I", "isystem"}, d \in SearchDirs}

\* lines 78-83: the directories of one kind, in the order of the options
dirs_of_kind(a, k) ==
  LET sel == SelectSeq(a, LAMBDA x : x.kind = k)
  IN  [i \in 1..Len(sel) |-> sel[i].dir]

\* lines 385-394: the first occurrence of every directory, in order
RECURSIVE dedup_dirs(_, _)
dedup_dirs(ds, seen) ==
  IF ds = <<>> THEN <<>>
  ELSE IF Head(ds) \in seen THEN dedup_dirs(Tail(ds), seen)
  ELSE <<Head(ds)>> \o dedup_dirs(Tail(ds), seen \cup {Head(ds)})

\* the search list with the -isystem directories in it
global_searchWithSys(a, extra) ==
  dedup_dirs(dirs_of_kind(a, "iquote") \o dirs_of_kind(a, "I")
               \o dirs_of_kind(a, "isystem") \o extra, {})
\* lines 361-394: quote_dirs + user_dirs + norm_extra without repetition;
\* sys_dirs is left out
global_search(a, extra) ==
  dedup_dirs(dirs_of_kind(a, "iquote") \o dirs_of_kind(a, "I") \o extra, {})

\* lines 423-434: the file in the including file's directory if there is
\* one, else in the first directory of the search list that has one; has is
\* the set of directories that hold a file of the name
resolve_include_in(has, including_dir, search) ==
  IF including_dir \in has THEN Some(including_dir)
  ELSE LET hits == {k \in 1..Len(search) : search[k] \in has}
       IN  IF hits = {} THEN None
           ELSE Some(search[CHOOSE k \in hits : \A o \in hits : k <= o])

\* _resolve_include called for one name under one build-database entry, one
\* list of extra directories and one placement of the file
CallResolveInclude ==
  /\ op = ""
  /\ \E a \in SeqsUpTo(DirArgs, MaxArgs),
        extra \in SeqsUpTo(SearchDirs, MaxExtraDirs),
        has \in SUBSET (SearchDirs \cup {IncludingDir}) :
       Call("_resolve_include", <<a, extra, has>>,
            resolve_include_in(has, IncludingDir, global_search(a, extra)))
  /\ UNCHANGED engineVars

InitResolve == NoEngine /\ FlattenIdle

NextResolve == CallResolveInclude

SpecResolve == InitResolve /\ [][NextResolve]_vars

\* the order the directories are tried in: the including file's directory,
\* the -iquote directories, the -I directories, the extra directories
SearchOrder(a, extra) ==
  <<IncludingDir>> \o dirs_of_kind(a, "iquote") \o dirs_of_kind(a, "I") \o extra

\* C33: a quoted include resolves to the file in the first directory, in the
\* order including file's directory, -iquote, -I, extra, that holds a file
\* of the name, to none when no such directory holds one, and never on the
\* strength of an -isystem option
C33_ResolutionOrder ==
  op = "_resolve_include" =>
    LET order == SearchOrder(args[1], args[2])
        has == args[3]
        hits == {k \in 1..Len(order) : order[k] \in has}
    IN  IF hits = {} THEN ret = None
        ELSE \E k \in hits :
               /\ \A o \in hits : k <= o
               /\ ret = Some(order[k])

\* the file is in an -I directory and in an extra directory, and an -isystem
\* directory named first holds it too: the -I directory wins
C33_Witness ==
  /\ op = "_resolve_include"
  /\ args[1] = <<DirArg("isystem", "sys"), DirArg("I", "inc")>>
  /\ args[2] = <<"third">>
  /\ args[3] = {"sys", "inc", "third"}
  /\ ret = Some("inc")

\* ---- calls that are refused at once ---------------------------------------

\* the project with or without its root file
WithOrWithoutRoot(root) ==
  {MixedProject(root, <<Include("c.h"), Text("b.h")>>),
   [nm \in {"b.h", "c.h"} |-> <<Text(nm)>>]}

InitFlattenChecked ==
  /\ NoEngine
  /\ files \in UNION {WithOrWithoutRoot(r) : r \in SeqsUpTo(MixedRootLines, MaxMixedLines)}
  /\ flags \in {[NoFlags EXCEPT !.include_debug_comments = d, !.compile_commands_path = cc] :
                  d \in BOOLEAN, cc \in BuildDatabases}
  /\ FlattenReady

SpecFlattenChecked == InitFlattenChecked /\ [][NextFlatten]_vars

\* C34: when the root file is missing, or a build-database path is given
\* that names no file, a file that cannot be read, a file that is not JSON or
\* JSON that is not an array, the call raises before any file is entered:
\* nothing is read, nothing is in the output, no counter has moved and the
\* call never returns
C34_FailsFirst ==
  (\/ RootFile \notin DOMAIN files
   \/ flags.compile_commands_path \in {"missing", "unreadable", "invalid_json", "not_array"})
    => /\ fl_pc \in {"idle", "ValueError"}
       /\ frames = <<>> /\ stack = <<>> /\ inlined = {}
       /\ out = <<>> /\ stats = NoStats

\* the root is there and has an include, the build database holds a JSON
\* object: the call has raised
C34_Witness ==
  /\ fl_pc = "ValueError"
  /\ RootFile \in DOMAIN files
  /\ files[RootFile] = <<Include("b.h"), Text("int a;")>>
  /\ flags.compile_commands_path = "not_array"
  /\ out = <<>>

\* the binary search is at the head of its loop, behind the test of a
\* midpoint, or behind the loop
InSearch == pc \in {"loop", "after_mid", "after_low", "after_high"}

\* C35: at the head of the loop, after every midpoint and behind the loop
\* the attempt at low passed, the attempt at high failed with a code of the
\* compiler's own and low < high; behind the loop high = low + 1 and no
\* inconclusive_reason is set, so the search returns the attempt at low as
\* lowest_supported, the attempt at low + 1 as first_failure, both present,
\* and no reason
C35_LoopInvariant ==
  /\ [](InSearch => low < high /\ PassesAt(low) /\ FailsAt(high))
  /\ [](pc \in {"after_low", "after_high"} =>
          high = low + 1 /\ inconclusive_reason = "None")
  /\ [][(pc = "after_high" /\ pc' # pc) =>
          /\ pc' = "emit"
          /\ summary' = CeGroupSummary(Some(attempts_by_idx[0]),
                                       Some(attempts_by_idx[low]),
                                       Some(attempts_by_idx[low + 1]),
                                       tested, "None")]_vars

\* a search over sixteen compilers has returned the boundary between the
\* indices 9 and 10
C35_Witness ==
  /\ Returned /\ n = 16
  /\ low = 9 /\ high = 10
  /\ summary.lowest_supported = Some(CeAttempt(9, 0))
  /\ summary.first_failure = Some(CeAttempt(10, 1))
  /\ summary.inconclusive_reason = "None"

\* the optional attempt x is one of the attempts of the summary s
AmongAttempts(x, s) ==
  x # None => \E k \in 1..Len(s.attempts) : s.attempts[k] = x[1]

\* C36: in every summary _probe_group_binary returns, highest_supported,
\* lowest_supported and first_failure are among attempts when present;
\* highest_supported is the attempt of index 0 and passed; lowest_supported
\* passed; first_failure did not pass; without highest_supported there is no
\* lowest_supported; with highest_supported and without inconclusive_reason
\* there is a lowest_supported
C36_SummaryShape ==
  Returned =>
    /\ AmongAttempts(summary.highest_supported, summary)
    /\ AmongAttempts(summary.lowest_supported, summary)
    /\ AmongAttempts(summary.first_failure, summary)
    /\ summary.highest_supported # None =>
         /\ summary.highest_supported = Some(attempts_by_idx[0])
         /\ summary.highest_supported[1].idx = 0
         /\ summary.highest_supported[1].code = 0
    /\ summary.lowest_supported # None => summary.lowest_supported[1].code = 0
    /\ summary.first_failure # None => summary.first_failure[1].code # 0
    /\ summary.highest_supported = None => summary.lowest_supported = None
    /\ (summary.inconclusive_reason = "None" /\ summary.highest_supported # None)
         => summary.lowest_supported # None

\* a group of one compiler that passed: it is highest and lowest at once
C36_Witness ==
  /\ Returned /\ n = 1
  /\ summary.highest_supported = Some(CeAttempt(0, 0))
  /\ summary.lowest_supported = Some(CeAttempt(0, 0))
  /\ summary.first_failure = None
  /\ summary.attempts = <<CeAttempt(0, 0)>>

TerminalKinds == {"finished", "aborted", "failed"}
TerminalEvents == SelectSeq(events, LAMBDA e : e.kind \in TerminalKinds)

\* C37: a run that has ended has emitted exactly one of finished, aborted
\* and failed, as its last signal; a run that has not ended has emitted
\* none; and no job has more than one group_done
C37_OneTerminalEvent ==
  /\ Len(TerminalEvents) = (IF pc = "done" THEN 1 ELSE 0)
  /\ pc = "done" => LastEvent.kind \in TerminalKinds
  /\ \A k \in 1..Len(events) :
       events[k].kind = "group_done" =>
         /\ events[k].job \in 1..Len(jobs)
         /\ \A o \in 1..Len(events) :
              (events[o].kind = "group_done" /\ events[o].job = events[k].job) => o = k

\* a run over two groups was cancelled while the second was probed: one
\* group_done, then aborted
C37_Witness ==
  /\ pc = "done" /\ Len(jobs) = 2 /\ jidx = 2
  /\ events = <<Ev("group_done", 1, "None"), Aborted>>
  /\ attempts_by_idx # EmptyTable

\* C38: the step that ends a compile call with an exception or with the
\* cancellation leaves the compile cache as it was; the cache changes only
\* on the step that returns a response, and by the entry of that call alone;
\* and a call that equals one that raised, and none that returned, issues a
\* request
C38_FailureNotCached ==
  [][ /\ (pc # "test_except" /\ pc' = "test_except") => compile_cache' = compile_cache
      /\ compile_cache' # compile_cache =>
           /\ pc = "http" /\ pc' = "test_resp"
           /\ DOMAIN compile_cache' = (DOMAIN compile_cache) \cup {key}
           /\ compile_cache'[key] = resp'
           /\ \A k \in DOMAIN compile_cache : compile_cache'[k] = compile_cache[k]
      /\ (/\ pc = "compile" /\ pc' # pc
          /\ CallKey \in failed_calls /\ CallKey \notin DOMAIN served
          /\ Len(libraries) = 0) =>
           pc' = "req_loop" /\ ~hit'
    ]_vars

\* the second run repeats a call that raised in the first and was never
\* answered: its request is on the way
C38_Witness ==
  /\ runs = 2 /\ pc = "http"
  /\ CallKey \in failed_calls
  /\ CallKey \notin DOMAIN served
  /\ key \notin DOMAIN compile_cache

\* C39: the step that starts a probe leaves the new run with an abort event
\* that is not set, without interruption request and without a signal or
\* summary of the run before; abort_probe sets the event the current worker
\* holds and is recorded for the current run alone; and a run ends by
\* cancellation only when abort_probe was called during that run
C39_FreshAbortSignal ==
  /\ [](\A r \in aborted_runs : r \in 1..runs)
  /\ []((cancelled \/ exc = "CancelledByUser" \/ (events # <<>> /\ LastEvent = Aborted))
          => runs \in aborted_runs)
  /\ [][ /\ runs' # runs =>
              /\ runs' = runs + 1
              /\ ~abort' /\ ~interruption'
              /\ events' = <<>> /\ summary' = NoSummary
              /\ pc' = "run_loop"
              /\ aborted_runs' = aborted_runs
         /\ aborted_runs' # aborted_runs =>
              /\ aborted_runs' = aborted_runs \cup {runs}
              /\ ~abort /\ abort'
              /\ runs' = runs
       ]_vars

\* the first run was aborted, the second was not and has finished with the
\* result of its group alone
C39_Witness ==
  /\ runs = 2 /\ pc = "done"
  /\ aborted_runs = {1}
  /\ ~abort
  /\ events = <<Ev("group_done", 1, "None"), Ev("finished", 0, "None")>>

\* the files a quoted include of file p names and that exist
IncludedBy(p) ==
  {files[p][k].name : k \in {i \in 1..Len(files[p]) :
                               files[p][i].kind = "include" /\ files[p][i].name \in DOMAIN files}}

RECURSIVE ReachableFrom(_)
ReachableFrom(S) ==
  LET more == S \cup UNION {IncludedBy(p) : p \in S}
  IN  IF more = S THEN S ELSE ReachableFrom(more)

\* C40: no file is on the stack twice; the stack is never deeper than the
\* number of files reachable from the root; the stack holds exactly the files
\* whose bodies are being processed, so a file is pushed when its body is
\* entered and popped when its last line is done, and the stack is empty
\* when the call has returned; and no include line that resolves is in the
\* output, whether its target was inlined or skipped as a cycle or duplicate
C40_StackDiscipline ==
  /\ [](\A i, j \in 1..Len(stack) : stack[i] = stack[j] => i = j)
  /\ [](RootFile \in DOMAIN files =>
          Len(stack) <= Cardinality(ReachableFrom({RootFile})))
  /\ [](/\ Len(stack) = Len(frames)
        /\ \A k \in 1..Len(stack) : stack[k] = frames[k].p)
  /\ [](fl_pc = "done" => stack = <<>>)
  /\ [](\A i \in 1..Len(out) :
          out[i].kind = "include" => out[i].name \notin DOMAIN files)
  /\ [][ /\ Len(stack') < Len(stack) =>
              /\ frames[Len(frames)].line_no = Len(files[frames[Len(frames)].p])
              /\ stack' = SubSeq(stack, 1, Len(stack) - 1)
         /\ Len(stack') > Len(stack) =>
              /\ Len(stack') = Len(stack) + 1
              /\ SubSeq(stack', 1, Len(stack)) = stack
       ]_vars

\* b.h and c.h include each other and the root includes both: the call has
\* returned with every file once in the output
C40_Witness ==
  /\ fl_pc = "done" /\ stack = <<>>
  /\ files = Project(<<<<1, 2>>, <<1, 3>>, <<2, 3>>, <<3, 2>>>>)
  /\ flags.inline_once
  /\ NonMarkers(out) = <<Text("c.h"), Text("b.h"), Text("main.cpp")>>
  /\ stats.include_lines_inlined = 4
  /\ stats.files_inlined = 3

============================================================================
